---- MODULE Spec2Model ----
(***************************************************************************)
(* Model of the prewhitening core of star_shine (core/analysis.py).        *)
(*                                                                         *)
(* Units.  Frequencies are integers in units of the finest periodogram     *)
(* step df/100 used by the extractors, so df = 100, the Rayleigh criterion *)
(* 1.5/t_tot = 15 df = 1500 and 1/t_tot = 10 df = 1000.  BIC values are    *)
(* integers in units of 0.001 so that rounding to 2 decimals is visible.   *)
(* Phases are 0 (in phase) or 3 (anti-phase, just below pi).  Sequences    *)
(* are 1-based: index i of the model is index i-1 of the numpy arrays.     *)
(*                                                                         *)
(* Data.  The time series is represented by its content: a list of true    *)
(* signals (frequency, signed amplitude) and a noise profile.  The         *)
(* residual of a model is the list of spectral lines that are left: the    *)
(* true signals and, negated, the included sinusoids.  The periodogram of  *)
(* a residual is the coherent sum of the lines through a triangular        *)
(* spectral window of half-width 1/t_tot.                                  *)
(***************************************************************************)
EXTENDS Integers, Sequences, FiniteSets, TLC

VARIABLES
    data,       \* the time series: [truth, knee, fitoff]
    sin,        \* ts_model.sinusoid: sequence of [f, a, ph, harm, incl]
    lin,        \* ts_model.linear: [const, slope]
    pc,         \* position in the routine that is running
    top,        \* the routine called by the user: "extract", "refine", "replace"
    par,        \* arguments of extract_sinusoids
    ex,         \* locals of extract_sinusoids
    rf,         \* locals of refine_subset
    rp,         \* locals of replace_subset
    hist,       \* observations of the run (ghost state used by the properties)
    xin,        \* arguments of a single extractor call
    xout,       \* result of a single extractor call
    rs,         \* locals of remove_sinusoids_single
    rg,         \* locals of replace_sinusoid_groups
    fh,         \* locals of fix_harmonic_frequency
    fo,         \* locals and result of find_orbital_period
    store,      \* the result file on disk, config.overwrite and the last call on it
    files,      \* Data.file_list, the files on disk and the state of the check
    gui,        \* MainWindow: pipeline, pipeline thread, save location and text field
    xh,         \* locals of extract_harmonics
    result,     \* Result: the arrays per sinusoid and the last call on them
    nyq,        \* arguments, locals and result of nyquist_frequency
    inst        \* Data: the attributes of the instance and the file it was saved to

\* what lies outside the time series model
later == <<xh, result, nyq, inst>>
outer == <<fo, store, files, gui, later>>

vars == <<data, sin, lin, pc, top, par, ex, rf, rp, hist, xin, xout, rs, rg, fh, fo, store, files, gui,
          xh, result, nyq, inst>>

(***************************************************************************)
(* Constants of the program                                                *)
(***************************************************************************)
OverSample == 100                 \* refinement: df / 100
Df == OverSample                  \* df = 0.1 / ptp(time), in units of df/100
MinFreq == Df \div 10             \* df / 10, lower clamp of the windows
Milli == 1000                     \* the unit 1 of a value held in thousandths
Rayleigh == 15 * Df               \* ts_model.f_resolution = 1.5 / t_tot
FreqResReplace == 10 * Df         \* replace_subset: freq_res = 1 / t_tot
ApproxHalfWidth == 25 * Df        \* extract_approx: 25 * df

(***************************************************************************)
(* Small helpers                                                           *)
(***************************************************************************)
Abs(x) == IF x < 0 THEN -x ELSE x
Max(a, b) == IF a >= b THEN a ELSE b
Min(a, b) == IF a <= b THEN a ELSE b

RECURSIVE SeqSum(_)
SeqSum(s) == IF s = <<>> THEN 0 ELSE Head(s) + SeqSum(Tail(s))

\* np.argmax: index of the first maximum of v[1..n]
RECURSIVE MaxIn(_, _, _)
MaxIn(v, lo, hi) ==
    IF lo = hi THEN <<lo, v[lo]>>
    ELSE LET mid == (lo + hi) \div 2
             l == MaxIn(v, lo, mid)
             r == MaxIn(v, mid + 1, hi)
         IN  IF r[2] > l[2] THEN r ELSE l

ArgMax(v, n) == MaxIn(v, 1, n)[1]

\* Op(x), with x evaluated once
Bind(x, Op(_)) == CHOOSE r \in {Op(v) : v \in {x}} : TRUE

\* np.argmax of the quotients num[k] / den[k], den[k] > 0: the quotients of
\* two doubles that hold integers are compared as the fractions are
RECURSIVE MaxRatioIn(_, _, _, _)
MaxRatioIn(num, den, lo, hi) ==
    IF lo = hi THEN lo
    ELSE Bind(<<MaxRatioIn(num, den, lo, (lo + hi) \div 2),
                MaxRatioIn(num, den, (lo + hi) \div 2 + 1, hi)>>,
              LAMBDA p : IF num[p[2]] * den[p[1]] > num[p[1]] * den[p[2]] THEN p[2] ELSE p[1])

ArgMaxRatio(num, den, n) == MaxRatioIn(num, den, 1, n)

Sign(x) == IF x > 0 THEN 1 ELSE IF x < 0 THEN -1 ELSE 0

\* a * 2^k modulo m
RECURSIVE DoubleMod(_, _, _)
DoubleMod(a, k, m) == IF k = 0 THEN a % m ELSE (2 * DoubleMod(a, k - 1, m)) % m

RECURSIVE Pow2(_)
Pow2(k) == IF k = 0 THEN 1 ELSE 2 * Pow2(k - 1)

\* the exponent of the double num / den: the largest e with 2^e <= num / den
RECURSIVE Log2Floor(_, _)
Log2Floor(num, den) ==
    IF num >= den THEN (IF num >= 2 * den THEN 1 + Log2Floor(num, 2 * den) ELSE 0)
    ELSE Log2Floor(2 * num, den) - 1

\* A BIC value x is held in units of 0.001 and stands for the double nearest
\* x / 1000, which is M * 2^(e - 52) with e = Exponent(x) and M the mantissa
Exponent(x) == Log2Floor(x, 1000)

\* the double nearest x / 1000 minus x / 1000, in units of 2^(e - 52) / 1000
ReprError(x) ==
    Bind(DoubleMod(x, 52 - Exponent(x), 1000), LAMBDA r : IF r < 500 THEN 0 - r ELSE 1000 - r)

\* the lowest s bits of the mantissa of the double nearest x / 1000
MantissaLow(x, s) ==
    Bind(1000 * Pow2(s), LAMBDA m :
        ((DoubleMod(x, 52 - Exponent(x), m) + ReprError(x)) % m) \div 1000)

\* the smaller of the exponents of the doubles nearest x / 1000 and y / 1000
MinExponent(x, y) ==
    IF x = 0 THEN Exponent(Abs(y))
    ELSE IF y = 0 THEN Exponent(Abs(x))
    ELSE Min(Exponent(Abs(x)), Exponent(Abs(y)))

\* the exact difference of the two doubles minus (x - y) / 1000, in units of
\* 2^(e_min - 52) / 1000
OperandError(x, y, e_min) ==
    LET Err(z) == IF z = 0 THEN 0
                  ELSE Sign(z) * ReprError(Abs(z)) * Pow2(Exponent(Abs(z)) - e_min)
    IN  Err(x) - Err(y)

\* the exact difference of the two doubles is n * 2^(e_min - 52); the double
\* it is rounded to, half to even, drops the lowest s bits of n: the rounded
\* value minus the exact one, in units of 2^(e_min - 52)
RoundingError(x, y, e_min, s) ==
    LET Low(z) == IF z = 0 \/ Exponent(Abs(z)) - e_min >= s + 1 THEN 0
                  ELSE Sign(z) * MantissaLow(Abs(z), s + 1 - (Exponent(Abs(z)) - e_min))
                               * Pow2(Exponent(Abs(z)) - e_min)
    IN  Bind(<<(Low(x) - Low(y)) % Pow2(s + 1), Pow2(s)>>, LAMBDA n :
            LET n_low == n[1] % n[2]
                up == 2 * n_low > n[2] \/ (2 * n_low = n[2] /\ n[1] >= n[2])
            IN  IF up THEN n[2] - n_low ELSE 0 - n_low)

\* np.round(x - y, 2) is rint((x - y) * 100) / 100 on doubles. For x - y an
\* odd multiple of 0.005, a tie in decimals, the difference of the two doubles
\* is rounded to a double, and so is its product with 100: err is the
\* difference of the doubles minus the decimal difference, in units of
\* 2^(e_min - 52) / 1000, and the product is above (1), below (-1) or exactly
\* at (0) the half-integer
TieDirection(x, y) ==
    Bind(MinExponent(x, y), LAMBDA e_min :
    Bind(OperandError(x, y, e_min), LAMBDA e_0 :
    Bind(Log2Floor(x - y, 1000) - (IF x - y = 125 /\ e_0 < 0 THEN 1 ELSE 0) - e_min, LAMBDA s :
    Bind(IF s <= 0 THEN e_0 ELSE e_0 + 1000 * RoundingError(x, y, e_min, s), LAMBDA err :
    Bind(Log2Floor(x - y, 10), LAMBDA e_t :
    Bind(<<err * Pow2(e_min - Min(e_min, e_t)), 5 * Pow2(e_t - Min(e_min, e_t))>>, LAMBDA c :
        IF c[1] > c[2] THEN 1
        ELSE IF (IF x - y = 5 THEN 0 - 2 * c[1] ELSE 0 - c[1]) > c[2] THEN -1
        ELSE 0))))))

\* np.round(x - y, 2) for x >= y in units of 0.001; rint rounds half to even
Round2Above(x, y) ==
    LET q == (x - y) \div 10
        r == (x - y) % 10
    IN  IF r < 5 THEN 10 * q
        ELSE IF r > 5 THEN 10 * (q + 1)
        ELSE Bind(TieDirection(x, y), LAMBDA t :
                 IF t > 0 \/ (t = 0 /\ q % 2 = 1) THEN 10 * (q + 1) ELSE 10 * q)

\* np.round(x - y, 2) on the doubles nearest x and y, in units of 0.001
Round2Diff(x, y) == IF x < y THEN 0 - Round2Above(y, x) ELSE Round2Above(x, y)

(***************************************************************************)
(* IEEE doubles                                                            *)
(* The periods, the bounds of the dense grids and the measures that        *)
(* find_orbital_period and refine_orbital_period compute are doubles. A    *)
(* double that is not negative is held as [form, m, e]: of form "finite"   *)
(* it is m * 2^e, with m = 0 or 2^52 <= m < 2^53, of form "inf" it is      *)
(* infinity and of form "nan" it is not a number. A whole number such as m *)
(* is held in three words of 30 bits, <<w1, w2, w3>> for                   *)
(* w1 + w2 * 2^30 + w3 * 2^60. Every operation gives the double nearest to *)
(* the exact outcome, ties to the even mantissa                            *)
(***************************************************************************)
Word == Pow2(30)
HalfWord == Pow2(15)
MaxFine == 2147483647             \* the largest whole number that is held
PowerOf2 == [k \in 0..30 |-> Pow2(k)]

BigZero == <<0, 0, 0>>
BigOne == <<1, 0, 0>>
BigOf(a) == <<a % Word, a \div Word, 0>>

BigGe(a, b) ==
    IF a[3] # b[3] THEN a[3] > b[3]
    ELSE IF a[2] # b[2] THEN a[2] > b[2]
    ELSE a[1] >= b[1]

BigAdd(a, b) ==
    LET s1 == a[1] + b[1]
        s2 == a[2] + b[2] + s1 \div Word
    IN  <<s1 % Word, s2 % Word, a[3] + b[3] + s2 \div Word>>

\* a - b for a >= b
BigSub(a, b) ==
    LET b1 == IF a[1] < b[1] THEN 1 ELSE 0
        b2 == IF a[2] - b1 < b[2] THEN 1 ELSE 0
    IN  <<a[1] - b[1] + b1 * Word, a[2] - b1 - b[2] + b2 * Word, a[3] - b2 - b[3]>>

\* the number of bits of a word and of a whole number
WordBits(w) == CHOOSE b \in 0..30 : w < PowerOf2[b] /\ (b = 0 \/ w >= PowerOf2[b - 1])
BigBits(a) ==
    IF a[3] > 0 THEN 60 + WordBits(a[3])
    ELSE IF a[2] > 0 THEN 30 + WordBits(a[2])
    ELSE WordBits(a[1])

\* a * 2^s, for an outcome below 2^90
BigShl(a, s) ==
    LET r == s % 30
        lo == PowerOf2[30 - r]
        b == IF r = 0 THEN a
             ELSE <<(a[1] % lo) * PowerOf2[r],
                    (a[2] % lo) * PowerOf2[r] + a[1] \div lo,
                    (a[3] % lo) * PowerOf2[r] + a[2] \div lo>>
    IN  IF s < 30 THEN b
        ELSE IF s < 60 THEN <<0, b[1], b[2]>>
        ELSE <<0, 0, b[1]>>

\* a \div 2^t, and whether a bit that is set was lost
BigShr(a, t) ==
    LET b == IF t < 30 THEN a
             ELSE IF t < 60 THEN <<a[2], a[3], 0>>
             ELSE IF t < 90 THEN <<a[3], 0, 0>>
             ELSE BigZero
        words == IF t < 30 THEN FALSE
                 ELSE IF t < 60 THEN a[1] # 0
                 ELSE IF t < 90 THEN a[1] # 0 \/ a[2] # 0
                 ELSE a # BigZero
        r == IF t < 90 THEN t % 30 ELSE 0
        hi == PowerOf2[30 - r]
    IN  IF r = 0 THEN [n |-> b, lost |-> words]
        ELSE [n |-> <<b[1] \div PowerOf2[r] + (b[2] % PowerOf2[r]) * hi,
                      b[2] \div PowerOf2[r] + (b[3] % PowerOf2[r]) * hi,
                      b[3] \div PowerOf2[r]>>,
              lost |-> words \/ b[1] % PowerOf2[r] # 0]

\* a * k for k < 2^15 and an outcome below 2^90, by half words
RECURSIVE MulFrom(_, _, _, _)
MulFrom(l, k, i, carry) ==
    IF i > Len(l) THEN <<>>
    ELSE <<(l[i] * k + carry) % HalfWord>> \o MulFrom(l, k, i + 1, (l[i] * k + carry) \div HalfWord)

BigMul(a, k) ==
    Bind(MulFrom(<<a[1] % HalfWord, a[1] \div HalfWord, a[2] % HalfWord, a[2] \div HalfWord,
                   a[3] % HalfWord, a[3] \div HalfWord>>, k, 1, 0), LAMBDA d :
        <<d[1] + d[2] * HalfWord, d[3] + d[4] * HalfWord, d[5] + d[6] * HalfWord>>)

\* a whole number below 2^31 as an integer, and MaxFine for any other
BigInt(a) == IF a[3] > 0 \/ a[2] > 1 THEN MaxFine ELSE a[1] + a[2] * Word

FlZero == [form |-> "finite", m |-> BigZero, e |-> 0]
FlInf == [form |-> "inf", m |-> BigZero, e |-> 0]
FlNaN == [form |-> "nan", m |-> BigZero, e |-> 0]
IsZero(x) == x.form = "finite" /\ x.m = BigZero

\* the double nearest to n * 2^e, where sticky tells that n stands for a value
\* between n and n + 1 (n then has more than 53 bits)
FlRound(n, e, sticky) ==
    Bind(BigBits(n), LAMBDA bits :
        IF bits = 0 THEN FlZero
        ELSE IF bits <= 53 THEN [form |-> "finite", m |-> BigShl(n, 53 - bits), e |-> e - (53 - bits)]
        ELSE Bind(BigShr(n, bits - 54), LAMBDA s :
             Bind(BigShr(s.n, 1).n, LAMBDA m :
             Bind(IF s.n[1] % 2 = 1 /\ (sticky \/ s.lost \/ m[1] % 2 = 1) THEN BigAdd(m, BigOne) ELSE m,
                  LAMBDA up :
                 IF up = <<0, PowerOf2[23], 0>>
                 THEN [form |-> "finite", m |-> <<0, PowerOf2[22], 0>>, e |-> e + bits - 52]
                 ELSE [form |-> "finite", m |-> up, e |-> e + bits - 53]))))

\* the double of a whole number below 2^31
FlOf(a) == FlRound(BigOf(a), 0, FALSE)

\* r * 2^s \div d and the remainder, for r < d and 2^52 <= d < 2^53: the
\* leading bits give the digit but for a few units
DivDigit(r, d, s) ==
    Bind(BigShl(r, s), LAMBDA n :
    Bind(BigInt(BigShr(n, 38).n) \div (BigInt(BigShr(d, 38).n) + 1), LAMBDA low :
    Bind(BigSub(n, BigMul(d, low)), LAMBDA rest :
    Bind(Cardinality({j \in 1..4 : BigGe(rest, BigMul(d, j))}), LAMBDA more :
        [q |-> low + more, r |-> BigSub(rest, BigMul(d, more))]))))

\* x * 2^55 \div y of two mantissas and whether there is a remainder
DivMantissa(x, y) ==
    Bind(IF BigGe(x, y) THEN [q |-> 1, r |-> BigSub(x, y)] ELSE [q |-> 0, r |-> x], LAMBDA s0 :
    Bind(DivDigit(s0.r, y, 15), LAMBDA s1 :
    Bind(DivDigit(s1.r, y, 15), LAMBDA s2 :
    Bind(DivDigit(s2.r, y, 15), LAMBDA s3 :
    Bind(DivDigit(s3.r, y, 10), LAMBDA s4 :
        [q |-> BigAdd(BigAdd(BigShl(BigOf(s0.q), 55), BigShl(BigOf(s1.q), 40)),
                      BigAdd(BigShl(BigOf(s2.q), 25), BigOf(s3.q * 1024 + s4.q))),
         rest |-> s4.r # BigZero])))))

\* x / y
FlDiv(x, y) ==
    IF x.form = "nan" \/ y.form = "nan" THEN FlNaN
    ELSE IF x.form = "inf" THEN (IF y.form = "inf" THEN FlNaN ELSE FlInf)
    ELSE IF y.form = "inf" THEN FlZero
    ELSE IF IsZero(y) THEN (IF IsZero(x) THEN FlNaN ELSE FlInf)
    ELSE IF IsZero(x) THEN FlZero
    ELSE Bind(DivMantissa(x.m, y.m), LAMBDA s : FlRound(s.q, x.e - y.e - 55, s.rest))

\* a / b for whole numbers below 2^31: the double of a decimal constant
FlRatio(a, b) == FlDiv(FlOf(a), FlOf(b))

\* x < y and x > y; a comparison with not a number is false
FlLt(x, y) ==
    IF x.form = "nan" \/ y.form = "nan" \/ x.form = "inf" THEN FALSE
    ELSE IF y.form = "inf" THEN TRUE
    ELSE IF IsZero(y) THEN FALSE
    ELSE IF IsZero(x) THEN TRUE
    ELSE IF x.e # y.e THEN x.e < y.e
    ELSE x.m # y.m /\ BigGe(y.m, x.m)
FlGt(x, y) == FlLt(y, x)

\* x + y of finite doubles with x.e >= y.e, neither 0
AddAligned(x, y) ==
    Bind(BigShr(<<0, y.m[1], y.m[2]>>, x.e - y.e), LAMBDA s :
        FlRound(BigAdd(<<0, x.m[1], x.m[2]>>, s.n), x.e - 30, s.lost))

\* x + y of finite doubles
FlAdd(x, y) ==
    IF IsZero(x) THEN y
    ELSE IF IsZero(y) THEN x
    ELSE IF x.e >= y.e THEN AddAligned(x, y)
    ELSE AddAligned(y, x)

\* x - y of finite doubles with x >= y
FlSub(x, y) ==
    IF IsZero(y) THEN x
    ELSE Bind(BigShr(<<0, y.m[1], y.m[2]>>, x.e - y.e), LAMBDA s :
             FlRound(BigSub(<<0, x.m[1], x.m[2]>>, IF s.lost THEN BigAdd(s.n, BigOne) ELSE s.n),
                     x.e - 30, s.lost))

\* x * k for a whole number k < 2^15
FlTimes(x, k) ==
    IF x.form = "nan" THEN FlNaN
    ELSE IF x.form = "inf" THEN (IF k = 0 THEN FlNaN ELSE FlInf)
    ELSE FlRound(BigMul(x.m, k), x.e, FALSE)

\* x / 2
FlHalf(x) == IF IsZero(x) THEN x ELSE [x EXCEPT !.e = @ - 1]

\* the whole part of a finite double, and whether it has a fraction
FlWhole(x) ==
    IF x.e >= 0 THEN [n |-> BigShl(x.m, Min(x.e, 30)), lost |-> FALSE]
    ELSE BigShr(x.m, 0 - x.e)

\* math.ceil and math.floor of a finite double, MaxFine from 2^31 on
FlCeil(x) == Bind(FlWhole(x), LAMBDA s : Bind(BigInt(s.n), LAMBDA n :
                 IF s.lost /\ n < MaxFine THEN n + 1 ELSE n))
FlFloor(x) == BigInt(FlWhole(x).n)

\* np.floor_divide(x, y) of finite doubles, y > 0, below 2^15: the whole part
\* of the exact quotient
FlFloorDiv(x, y) ==
    IF FlLt(x, y) THEN 0
    ELSE Bind(FlFloor(FlDiv(x, y)), LAMBDA k :
             IF BigGe(BigShl(x.m, x.e - y.e), BigMul(y.m, k)) THEN k ELSE k - 1)

\* x * 10^8 to the nearest whole number, MaxFine from 2^31 on: a frequency
\* in the unit in which frs gets the test frequencies
ToUnits(x) ==
    IF x.form # "finite" \/ x.e >= 0 THEN MaxFine
    ELSE Bind(BigShr(BigMul(BigMul(x.m, 10000), 10000), 0 - x.e - 1), LAMBDA s :
             BigInt(BigAdd(BigShr(s.n, 1).n, <<s.n[1] % 2, 0, 0>>)))

(***************************************************************************)
(* Periodogram service on a residual (a sequence of lines [f, n])          *)
(***************************************************************************)
LobeWidth == 10 * Df              \* half-width of the spectral window, 1/t_tot

Window(d) == Max(0, LobeWidth - Abs(d))

\* projection of the residual on a unit sinusoid of frequency f (times LobeWidth)
RECURSIVE ProjectionFrom(_, _, _)
ProjectionFrom(res, f, k) ==
    IF k > Len(res) THEN 0
    ELSE res[k].n * Window(f - res[k].f) + ProjectionFrom(res, f, k + 1)

Projection(res, f) == ProjectionFrom(res, f, 1)

\* frequency grid f0, f0 + df, ... up to fn
GridSize(f0, fn, df) == (fn - f0) \div df + 1
FreqGrid(f0, fn, df) == [k \in 1..GridSize(f0, fn, df) |-> f0 + (k - 1) * df]

\* pdg.scargle: amplitude spectrum on the grid (unnormalised amplitudes)
Scargle(res, f0, fn, df) ==
    LET fr == FreqGrid(f0, fn, df)
    IN  [freqs |-> fr, ampls |-> [k \in 1..GridSize(f0, fn, df) |-> Abs(Projection(res, fr[k]))]]

\* pdg.scargle_ampl_phase_single: amplitude and phase at one frequency
AmplAt(res, f) == Abs(Projection(res, f)) \div LobeWidth
PhaseAt(res, f) == IF Projection(res, f) >= 0 THEN 0 ELSE 3

\* pdg.scargle_noise_spectrum_redux: noise level of the data at frequency f
NoiseAt(knee, f) == IF f < knee THEN 4 ELSE 1

\* ut.uphill_local_max for one starting index: walk to the higher neighbour
RECURSIVE UphillFrom(_, _, _)
UphillFrom(v, n, i) ==
    IF i < n /\ v[i + 1] > v[i] /\ (i = 1 \/ v[i + 1] >= v[i - 1])
    THEN UphillFrom(v, n, i + 1)
    ELSE IF i > 1 /\ v[i - 1] > v[i] THEN UphillFrom(v, n, i - 1)
    ELSE i

\* index of the point of the grid f0, f0 + df, ... (n points) nearest to f
NearestIndex(f0, df, n, f) == Max(1, Min(n, (2 * (f - f0) + df) \div (2 * df) + 1))

(***************************************************************************)
(* Single-frequency extractors                                             *)
(***************************************************************************)
\* the x100 refinement around a coarse peak, common to the three extractors
RefinePeak(res, f_peak) ==
    LET f_left == Max(f_peak - Df, MinFreq)
        f_right == f_peak + Df
        pd == Scargle(res, f_left, f_right, Df \div OverSample)
        i == ArgMax(pd.ampls, f_right - f_left + 1)
        f_final == pd.freqs[i]
    IN  [f |-> f_final, a |-> AmplAt(res, f_final), ph |-> PhaseAt(res, f_final)]

extract_single(res, knee, f0, fn, select) ==
    Bind(Scargle(res, f0, fn, Df), LAMBDA pd :
        LET n == GridSize(f0, fn, Df)
            i_f_max == IF select = "sn"
                       THEN Bind([k \in 1..n |-> NoiseAt(knee, pd.freqs[k])],
                                 LAMBDA noise_spectrum : ArgMaxRatio(pd.ampls, noise_spectrum, n))
                       ELSE ArgMax(pd.ampls, n)
        IN  RefinePeak(res, pd.freqs[i_f_max]))

extract_local(res, f0, fn) ==
    LET pd == Scargle(res, f0, fn, Df)
        n == GridSize(f0, fn, Df)
        neg == [k \in 1..n |-> 0 - pd.ampls[k]]
        lo == UphillFrom(neg, n, 1)
        hi == UphillFrom(neg, n, n)
        freqs == [k \in 1..(hi - lo + 1) |-> pd.freqs[lo + k - 1]]
        ampls == [k \in 1..(hi - lo + 1) |-> pd.ampls[lo + k - 1]]
        i_f_max == ArgMax(ampls, hi - lo + 1)
    IN  RefinePeak(res, freqs[i_f_max])

extract_approx(res, f_approx) ==
    LET f0 == Max(f_approx - ApproxHalfWidth, MinFreq)
        fn == f_approx + ApproxHalfWidth
        pd == Scargle(res, f0, fn, Df)
        n == GridSize(f0, fn, Df)
        i_f_max == UphillFrom(pd.ampls, n, NearestIndex(f0, Df, n, f_approx))
    IN  RefinePeak(res, pd.freqs[i_f_max])

(***************************************************************************)
(* Time Series Model: sinusoid set, linear trend, residual and BIC         *)
(***************************************************************************)
NChunks == 1                      \* one time chunk: len(i_chunks)
PenaltyPerParam == 300            \* ln(n_points) per free parameter, in 0.001
TrendWeight == 40                 \* cost of a trend that is off the least-squares one
LeakDiv == 16                     \* share of the unmodelled signal seen by the mean

Sinusoid(f, a, ph, harm) == [f |-> f, a |-> a, ph |-> ph, harm |-> harm, incl |-> TRUE]

SignedAmpl(s) == IF s.ph = 0 THEN s.a ELSE 0 - s.a

Indices(S) == 1..Len(S)
Included(S) == {i \in Indices(S) : S[i].incl}

\* sub-sequence of S at the indices of the set I, in index order
RECURSIVE SelectIdx(_, _, _)
SelectIdx(S, I, k) ==
    IF k > Len(S) THEN <<>>
    ELSE (IF k \in I THEN <<S[k]>> ELSE <<>>) \o SelectIdx(S, I, k + 1)

\* ts_model.residual(): the lines left after removing the included sinusoids
Residual(truth, S) ==
    LET inc == SelectIdx(S, Included(S), 1)
    IN  truth \o [k \in 1..Len(inc) |-> [f |-> inc[k].f, n |-> 0 - SignedAmpl(inc[k])]]

\* sum of squares of a residual without trend
Rss(res) ==
    SeqSum([k \in 1..Len(res) |->
              res[k].n * SeqSum([l \in 1..Len(res) |-> res[l].n * Window(res[k].f - res[l].f)])])
      \div LobeWidth

\* mdl.linear_pars: least-squares trend of the flux minus the included sinusoids
LinearPars(truth, S) ==
    LET res == Residual(truth, S)
    IN  [const |-> SeqSum([k \in 1..Len(res) |-> res[k].n]) \div LeakDiv, slope |-> 0]

\* ut.n_parameters: 2 per chunk, 3 per free sinusoid, 1 per harmonic
NParameters(S) ==
    2 * NChunks + 3 * Cardinality({i \in Included(S) : ~S[i].harm})
                + Cardinality({i \in Included(S) : S[i].harm})

\* ts_model.bic(): BIC of the residual of the current model
Bic(truth, S, L) ==
    LET ols == LinearPars(truth, S)
        dc == L.const - ols.const
        ds == L.slope - ols.slope
    IN  Rss(Residual(truth, S)) + TrendWeight * (dc * dc + ds * ds)
          + PenaltyPerParam * NParameters(S)

\* new sinusoids put in front of the others
PrependSinusoids(S, new) == new \o S

\* ts_model.add_sinusoids: append free sinusoids
AddSinusoids(S, new) == S \o new

\* ts_model.remove_sinusoids: delete by index set
RemoveSinusoids(S, I) == SelectIdx(S, Indices(S) \ I, 1)

\* an include_sinusoids that leaves the sinusoids excluded
IncludeNone(S, I) == S

\* ts_model.exclude_sinusoids / include_sinusoids: soft remove and its undo
ExcludeSinusoids(S, I) == [i \in Indices(S) |-> IF i \in I THEN [S[i] EXCEPT !.incl = FALSE] ELSE S[i]]
IncludeSinusoids(S, I) == [i \in Indices(S) |-> IF i \in I THEN [S[i] EXCEPT !.incl = TRUE] ELSE S[i]]

\* ts_model.remove_excluded: delete what is still excluded
RemoveExcluded(S) == SelectIdx(S, Included(S), 1)

\* ts_model.update_sinusoids(f, a, ph, j): new values for sinusoid j, which is
\* part of the model again afterwards
UpdateSinusoid(S, j, f, a, ph) ==
    [S EXCEPT ![j] = [@ EXCEPT !.f = f, !.a = a, !.ph = ph, !.incl = TRUE]]

\* ts_model.update_sinusoids(f_c, a_c, ph_c, indices): the values of a stored
\* copy for the sinusoids at the indices
UpdateSinusoids(S, copy, I) ==
    [i \in Indices(S) |->
        IF i \in I THEN [S[i] EXCEPT !.f = copy[i].f, !.a = copy[i].a, !.ph = copy[i].ph,
                                     !.incl = TRUE]
        ELSE S[i]]

\* ts_model.sinusoid.get_sinusoid_parameters(exclude=False): copy of f_n, a_n, ph_n
GetSinusoidParameters(S) == [i \in Indices(S) |-> [f |-> S[i].f, a |-> S[i].a, ph |-> S[i].ph]]

\* ts_model.set_sinusoids(f, a, ph): replace the whole set
SetSinusoids(copy) == [i \in 1..Len(copy) |-> Sinusoid(copy[i].f, copy[i].a, copy[i].ph, FALSE)]

(***************************************************************************)
(* Frequency-set utilities                                                 *)
(***************************************************************************)
\* indices of S sorted by frequency (ties by index)
RECURSIVE SortByFreq(_, _)
SortByFreq(S, I) ==
    IF I = {} THEN <<>>
    ELSE LET m == CHOOSE i \in I : \A j \in I : S[i].f < S[j].f \/ (S[i].f = S[j].f /\ i <= j)
         IN  <<m>> \o SortByFreq(S, I \ {m})

\* frs.f_within_rayleigh(i, f_n, rayleigh): the chain of sinusoids around i in
\* which neighbours in frequency are closer than the Rayleigh criterion
f_within_rayleigh(i, S, rayleigh) ==
    LET order == SortByFreq(S, Indices(S))
        pos == CHOOSE p \in 1..Len(order) : order[p] = i
        linked(p) == S[order[p + 1]].f - S[order[p]].f < rayleigh
        left == CHOOSE l \in 1..pos :
                   /\ \A p \in l..(pos - 1) : linked(p)
                   /\ (l = 1 \/ ~linked(l - 1))
        right == CHOOSE r \in pos..Len(order) :
                   /\ \A p \in pos..(r - 1) : linked(p)
                   /\ (r = Len(order) \/ ~linked(r))
    IN  SubSeq(order, left, right)

\* ut.consecutive_subsets: all runs of at least two consecutive members, longer first
consecutive_subsets(c) ==
    LET n == Len(c)
        runs(l) == [s \in 1..(n - l + 1) |-> SubSeq(c, s, s + l - 1)]
        RECURSIVE from(_)
        from(l) == IF l < 2 THEN <<>> ELSE runs(l) \o from(l - 1)
    IN  from(n)

Range(s) == {s[k] : k \in 1..Len(s)}

\* fit.fit_multi_sinusoid_per_group: one least-squares sweep over the sinusoids
\* and a trend that is the least-squares one up to the offset of the fit
RECURSIVE FitSweep(_, _, _)
FitSweep(truth, S, k) ==
    IF k > Len(S) THEN S
    ELSE LET res == Residual(truth, ExcludeSinusoids(S, {k}))
         IN  FitSweep(truth, UpdateSinusoid(S, k, S[k].f, AmplAt(res, S[k].f), PhaseAt(res, S[k].f)), k + 1)

FitMultiSinusoid(d, S) ==
    LET S2 == FitSweep(d.truth, S, 1)
        ols == LinearPars(d.truth, S2)
    IN  [sin |-> GetSinusoidParameters(S2),
         lin |-> [const |-> ols.const + d.fitoff, slope |-> ols.slope]]

(***************************************************************************)
(* Inputs                                                                  *)
(***************************************************************************)
MaxIter == 8                      \* cap on the iterations of the prewhitening loop; no run of the inputs reaches it

PdF0 == 20 * Df                   \* ts_model.pd_f0
PdFn == 60 * Df                   \* ts_model.pd_fn
ManyExtract == 1000000            \* n_extract = 0 stands for 10**6

Line(f, n) == [f |-> f, n |-> n]

\* contents of the time series: true signals and the frequency below which
\* the noise is high
Contents ==
    { [truth |-> <<Line(3037, 60)>>, knee |-> 0],
      [truth |-> <<Line(3037, 60), Line(3721, 56)>>, knee |-> 0],
      [truth |-> <<Line(3037, 60), Line(4310, 58)>>, knee |-> 35 * Df],
      [truth |-> <<Line(2537, 70), Line(5012, 62), Line(5499, 57)>>, knee |-> 35 * Df] }

DataSets ==
    { [truth |-> c.truth, knee |-> c.knee, fitoff |-> o] : c \in Contents, o \in {0, 1} }

\* sinusoid sets the model can hold when extract_sinusoids is called
InitialModels ==
    { <<>>,
      <<Sinusoid(3037, 55, 0, TRUE)>>,
      <<Sinusoid(3037, 40, 0, FALSE), Sinusoid(3300, 30, 0, FALSE)>> }

Args(b, s, c, m, n, f, r) ==
    [bic_thr |-> b, snr_thr |-> s, stop_crit |-> c, select |-> m, n_extract |-> n,
     fit_each_step |-> f, replace_each_step |-> r]

Parameters ==
    { Args(2000, 0, "bic", m, n, f, r) :
         m \in {"a", "sn", "hybrid"}, n \in {0, 1, 2}, f \in BOOLEAN, r \in BOOLEAN }
    \cup { Args(2436, 0, "bic", "a", 0, f, r) : f \in BOOLEAN, r \in BOOLEAN }
    \cup { Args(2000, t, "snr", m, n, f, r) :
         t \in {0, 20}, m \in {"a", "hybrid"}, n \in {0, 1}, f \in BOOLEAN, r \in BOOLEAN }

NoCopy == <<>>
IdleEx == [n_extract |-> 0, n_sin_init |-> 0, switch |-> FALSE, select |-> "a",
           bic_prev |-> 0, bic_init |-> 0, cond1 |-> TRUE, cond2 |-> TRUE,
           copy |-> NoCopy, f_i |-> 0, a_i |-> 0, ph_i |-> 0]
IdleRf == [close_f |-> <<>>, ret |-> "none", i_harmonics |-> {}, bic_prev |-> 0,
           copy |-> NoCopy, k |-> 0]
IdleRp == [close_f |-> <<>>, ret |-> "none", i_harmonics |-> {}, bic_prev |-> 0,
           sets |-> <<>>, k |-> 0, removed |-> <<>>, n_c |-> 0, n_new |-> 0]
IdlePar == Args(0, 0, "bic", "a", 0, FALSE, FALSE)
IdleXin == [res |-> <<>>, f0 |-> 0, fn |-> 0, knee |-> 0]
IdleXout == [call |-> "none", f |-> 0, a |-> 0, ph |-> 0]
IdleRs == [harmonics |-> <<>>, n_sin |-> 0, n_harm |-> 0, remove_single |-> <<>>,
           bic_prev |-> 0, bic_init |-> 0, n_prev |-> 0 - 1, i |-> 0,
           passes |-> 0, args_base |-> <<0, 0, 0>>, args_trial |-> <<0, 0, 0>>,
           trials |-> 0, trial_set |-> {}, gains |-> <<>>]
IdleRg == [harmonics |-> <<>>, n_sin |-> 0, n_harm |-> 0, f_sets |-> <<>>, harm_sets |-> {},
           remove_sets |-> <<>>, used_sets |-> {}, new |-> <<>>,
           bic_prev |-> 0, bic_init |-> 0, n_prev |-> 0 - 1, i |-> 0,
           passes |-> 0, args_base |-> <<0, 0, 0>>, args_trial |-> <<0, 0, 0>>,
           trials |-> 0, skips |-> 0, trial_size |-> 0, trial_set |-> <<>>, kept |-> FALSE]
IdleFh == [cand |-> <<>>, cand_n |-> <<>>, n_list |-> <<>>, k |-> 0,
           remove_harm_c |-> <<>>, new |-> <<>>, f |-> <<>>, harmonics |-> <<>>,
           non_harm |-> <<>>, remove_non_harm |-> <<>>, resid |-> <<>>, merged |-> <<>>,
           deleted |-> {}, error |-> "none"]

IdleFo == [p_coarse |-> FlZero, p_refined |-> FlZero, h_refined |-> FlZero,
           bound_interval |-> FlZero,
           n_multiply |-> <<>>, multiple |-> <<0, 0>>, p_orb |-> FlZero,
           measures |-> [n_multiply |-> <<>>, test_frac |-> <<>>, compl_frac |-> <<>>,
                         compl_frac_2 |-> FlZero],
           ret |-> [type |-> "none", items |-> <<>>]]
NoFile == [exists |-> FALSE, hdf5 |-> "none"]
IdleStore == [file |-> NoFile, csv |-> "none", overwrite |-> FALSE, save_ascii |-> FALSE,
              last |-> "none", arg |-> "none", before |-> NoFile, loaded |-> "none"]
IdleFiles == [file_list |-> <<>>, given |-> <<>>, on_disk |-> {}, missing |-> <<>>, k |-> 0,
              error |-> "none"]
MaxLog == 3                       \* lines that are appended to the text field
MaxPipelines == 2                 \* data sets that new_dataset is handed in one session

NoPipeline == 0                   \* self.pipeline = None

\* MainWindow.__init__ lines 64-75 and 229: no pipeline, no thread, the
\* directory of the configuration and a text field that holds "Log"; no
\* pipeline has been made and no thread runs
IdleGui == [pipeline |-> NoPipeline, pipeline_thread |-> NoPipeline,
            save_dir |-> "config.save_dir", save_subdir |-> "", text_field |-> <<"Log">>,
            last |-> "none", error |-> "none", line |-> 0,
            made |-> 0, has_files |-> [p \in 1..MaxPipelines |-> FALSE],
            result |-> [p \in 1..MaxPipelines |-> "none"], running |-> {}]

\* the routines that are not in use
IdleXh == [candidates |-> <<>>, i |-> 0, bic_prev |-> 0, bic_thr |-> 0, error |-> "none",
           entry |-> <<>>, before |-> <<>>, d_bic |-> <<0, 0>>, last |-> "none"]
IdleResult == [arrays |-> <<>>, before |-> <<>>, indices |-> {}, k |-> 0, error |-> "none"]
IdleNyq == [time |-> <<>>, method |-> "simple", delta_t_min |-> 0, n |-> 0, ss_nu |-> 0,
            is_zero |-> FALSE, zeros |-> {}, f_nyquist |-> 0]
\* Data.__init__ (api/data.py lines 78-96): the attributes of a new instance.
\* medians, description and date_time are attributes that only a later
\* setter call creates; extra names the ones that exist
NewData == [file_list |-> [container |-> "list", kind |-> "str", items |-> <<>>],
            data_dir |-> "", target_id |-> "", data_id |-> "",
            time |-> <<>>, flux |-> <<>>, flux_err |-> <<>>, i_chunks |-> <<>>,
            flux_counts_medians |-> <<>>, t_tot |-> 0, t_mean |-> 0, t_mean_chunk |-> <<>>,
            t_int |-> 0, p_orb |-> 0, f_min |-> 0, f_max |-> 0,
            medians |-> <<>>, description |-> "", date_time |-> "", extra |-> {}]

\* no hdf5 data file has been written; keys names the attributes and the
\* datasets that a file holds
NoDataFile == [written |-> FALSE, keys |-> {}, target_id |-> "", data_id |-> "",
           description |-> "", date_time |-> "", data_dir |-> "",
           file_list |-> [kind |-> "none", items |-> <<>>], t_tot |-> 0, t_mean |-> 0,
           t_int |-> 0, p_orb |-> 0, time |-> <<>>, flux |-> <<>>, flux_err |-> <<>>,
           i_chunks |-> <<>>, flux_counts_medians |-> <<>>, t_mean_chunk |-> <<>>]

IdleInst == [attrs |-> NewData, saved |-> NewData, file |-> NoDataFile,
             args |-> [target_id |-> "", data_id |-> ""], error |-> "none"]

IdleLater == xh = IdleXh /\ result = IdleResult /\ nyq = IdleNyq /\ inst = IdleInst

\* observations: counters of the loop, the model at the start of the current
\* iteration, and what the sub-routine that runs started from and did
IdleHist == [iters |-> 0, accepted |-> 0, rejected |-> 0, switches |-> 0, last |-> "none",
             pre_sin |-> NoCopy, pre_lin |-> [const |-> 0, slope |-> 0], pre_bic |-> 0,
             base |-> 0,
             ret |-> "none", entry |-> <<>>, good |-> NoCopy, passes |-> 0,
             added |-> <<>>, trials |-> 0, skips |-> 0, before |-> <<>>,
             trial |-> [base |-> 0, bic |-> 0, kept |-> FALSE, set |-> <<>>]]

\* the state of a model before a routine is called
InitModel(d, m, L) ==
    /\ data = d
    /\ sin = m
    /\ lin = L
    /\ hist = IdleHist
    /\ xin = IdleXin
    /\ xout = IdleXout
    /\ rs = IdleRs /\ rg = IdleRg /\ fh = IdleFh
    /\ fo = IdleFo /\ store = IdleStore /\ files = IdleFiles /\ gui = IdleGui /\ IdleLater

\* extract_sinusoids is called on a model whose trend is up to date
Init ==
    \E d \in DataSets, m \in InitialModels, p \in Parameters :
        /\ InitModel(d, m, LinearPars(d.truth, m))
        /\ (~p.fit_each_step => d.fitoff = 0)
        /\ top = "extract" /\ pc = "ex_entry" /\ par = p
        /\ ex = IdleEx /\ rf = IdleRf /\ rp = IdleRp

(***************************************************************************)
(* extract_sinusoids                                                       *)
(***************************************************************************)
\* lines 432-455: set up the loop
ExEntry ==
    /\ pc = "ex_entry"
    /\ LET b == Bic(data.truth, sin, lin)
       IN  ex' = [ex EXCEPT !.n_extract = IF par.n_extract = 0 THEN ManyExtract ELSE par.n_extract,
                            !.n_sin_init = Len(sin),
                            !.switch = (par.select = "hybrid"),
                            !.select = IF par.select = "hybrid" THEN "a" ELSE par.select,
                            !.bic_prev = b, !.bic_init = b,
                            !.cond1 = TRUE, !.cond2 = TRUE]
    /\ pc' = "ex_test"
    /\ UNCHANGED <<data, sin, lin, top, par, rf, rp, hist, xin, xout, rs, rg, fh, outer>>

\* the loop condition without the pending switch
LoopConditionNoSwitch == ex.cond1 /\ ex.cond2

\* line 456: the loop condition
LoopCondition == (ex.cond1 \/ ex.switch) /\ ex.cond2

ExLoopEnter ==
    /\ pc = "ex_test" /\ LoopCondition /\ hist.iters < MaxIter
    /\ pc' = "ex_iter"
    /\ hist' = [hist EXCEPT !.iters = @ + 1,
                            !.pre_sin = GetSinusoidParameters(sin), !.pre_lin = lin,
                            !.pre_bic = Bic(data.truth, sin, lin), !.base = ex.bic_prev]
    /\ UNCHANGED <<data, sin, lin, top, par, ex, rf, rp, xin, xout, rs, rg, fh, outer>>

ExLoopExit ==
    /\ pc = "ex_test" /\ ~LoopCondition
    /\ pc' = "ex_done"
    /\ UNCHANGED <<data, sin, lin, top, par, ex, rf, rp, hist, xin, xout, rs, rg, fh, outer>>

\* a switch that does not wait for a rejection
SwitchAtOnce(switch, cond1) == switch

\* line 458: the selection is switched when the extraction would stop
SwitchNow(switch, cond1) == switch /\ ~cond1

\* lines 457-487: switch of the selection, candidate, improvement strategy
ExIter ==
    /\ pc = "ex_iter"
    /\ LET sw == SwitchNow(ex.switch, ex.cond1)
           select == IF sw THEN "sn" ELSE ex.select
           c == extract_single(Residual(data.truth, sin), data.knee, PdF0, PdFn, select)
           S1 == AddSinusoids(sin, <<Sinusoid(c.f, c.a, c.ph, FALSE)>>)
           out == FitMultiSinusoid(data, S1)
           close_f == f_within_rayleigh(Len(S1), S1, Rayleigh)
       IN  /\ ex' = [ex EXCEPT !.select = select, !.switch = IF sw THEN FALSE ELSE @,
                               !.copy = GetSinusoidParameters(sin),
                               !.f_i = c.f, !.a_i = c.a, !.ph_i = c.ph]
           /\ hist' = [hist EXCEPT !.switches = IF sw THEN @ + 1 ELSE @]
           /\ IF par.fit_each_step
              THEN /\ lin' = out.lin
                   /\ sin' = SetSinusoids(out.sin)
                   /\ pc' = "ex_replace"
                   /\ rf' = rf
              ELSE IF Len(close_f) > 1
              THEN /\ sin' = S1
                   /\ lin' = lin
                   /\ rf' = [IdleRf EXCEPT !.close_f = close_f, !.ret = "ex_replace"]
                   /\ pc' = "rf_entry"
              ELSE /\ sin' = S1
                   /\ lin' = LinearPars(data.truth, S1)
                   /\ pc' = "ex_replace"
                   /\ rf' = rf
    /\ UNCHANGED <<data, top, par, rp, xin, xout, rs, rg, fh, outer>>

\* lines 489-493: possibly replace close frequencies
ExReplace ==
    /\ pc = "ex_replace"
    /\ LET close_f == f_within_rayleigh(Len(sin), sin, Rayleigh)
       IN  IF par.replace_each_step /\ Len(close_f) > 1
           THEN /\ rp' = [IdleRp EXCEPT !.close_f = close_f, !.ret = "ex_decide"]
                /\ pc' = "rp_entry"
           ELSE /\ rp' = rp
                /\ pc' = "ex_decide"
    /\ hist' = [hist EXCEPT !.ret = "none"]
    /\ UNCHANGED <<data, sin, lin, top, par, ex, rf, xin, xout, rs, rg, fh, outer>>

\* acceptance of any improvement, whatever the threshold
AcceptBicNoThreshold(bic_prev, bic, bic_thr) == Round2Diff(bic_prev, bic) > 0

\* line 508: acceptance on the BIC
AcceptBic(bic_prev, bic, bic_thr) == Round2Diff(bic_prev, bic) > bic_thr

\* lines 502-505: acceptance on the signal to noise ratio a_i / noise
AcceptSnr(a_i, noise, snr_thr) == a_i > snr_thr * noise

\* lines 515-516: back to the remembered sinusoids
RollBack(truth, copy) ==
    LET S == SetSinusoids(copy)
    IN  [sin |-> S, lin |-> LinearPars(truth, S)]

\* a limit that allows one sinusoid more
WithinLimitInclusive(n_sin, n_sin_init, n_extract) == n_sin - n_sin_init <= n_extract

\* line 519: the limit on the number of sinusoids
WithinLimit(n_sin, n_sin_init, n_extract) == n_sin - n_sin_init < n_extract

\* lines 495-519: accept or roll back, then the limit on the number of sinusoids
ExDecide ==
    /\ pc = "ex_decide"
    /\ LET bic == Bic(data.truth, sin, lin)
           cond1 == IF par.stop_crit = "snr"
                    THEN AcceptSnr(ex.a_i, NoiseAt(data.knee, ex.f_i), par.snr_thr)
                    ELSE AcceptBic(ex.bic_prev, bic, par.bic_thr)
           back == RollBack(data.truth, ex.copy)
           S2 == IF cond1 THEN sin ELSE back.sin
       IN  /\ sin' = S2
           /\ lin' = IF cond1 THEN lin ELSE back.lin
           /\ ex' = [ex EXCEPT !.cond1 = cond1,
                               !.bic_prev = IF cond1 THEN bic ELSE @,
                               !.cond2 = WithinLimit(Len(S2), ex.n_sin_init, ex.n_extract)]
           /\ hist' = [hist EXCEPT !.last = IF cond1 THEN "accept" ELSE "reject",
                                   !.accepted = IF cond1 THEN @ + 1 ELSE @,
                                   !.rejected = IF cond1 THEN @ ELSE @ + 1,
                                   !.ret = "none"]
    /\ pc' = "ex_test"
    /\ UNCHANGED <<data, top, par, rf, rp, xin, xout, rs, rg, fh, outer>>

(***************************************************************************)
(* refine_subset                                                           *)
(***************************************************************************)
\* lines 221-228
RfEntry ==
    /\ pc = "rf_entry"
    /\ rf' = [rf EXCEPT !.i_harmonics = {i \in Indices(sin) : sin[i].harm},
                        !.bic_prev = Bic(data.truth, sin, lin)]
    /\ hist' = [hist EXCEPT !.entry = sin, !.good = GetSinusoidParameters(sin),
                            !.passes = 0, !.ret = "none"]
    /\ pc' = "rf_pass"
    /\ UNCHANGED <<data, sin, lin, top, par, ex, rp, xin, xout, rs, rg, fh, outer>>

\* lines 229-231: start of a pass, remember the current sinusoids
RfPass ==
    /\ pc = "rf_pass"
    /\ rf' = [rf EXCEPT !.copy = GetSinusoidParameters(sin), !.k = 1]
    /\ pc' = "rf_member"
    /\ UNCHANGED <<data, sin, lin, top, par, ex, rp, hist, xin, xout, rs, rg, fh, outer>>

\* re-extraction that lets every sinusoid move, harmonic or not
ReExtractFree(S, res, j, i_harmonics) == extract_approx(res, S[j].f)

\* lines 240-246: new parameters of sinusoid j; a harmonic keeps its frequency
ReExtract(S, res, j, i_harmonics) ==
    IF j \in i_harmonics
    THEN [f |-> S[j].f, a |-> AmplAt(res, S[j].f), ph |-> PhaseAt(res, S[j].f)]
    ELSE extract_approx(res, S[j].f)

\* lines 234-249: exclude member j, re-extract it against the others, update it
RfMember ==
    /\ pc = "rf_member"
    /\ LET j == rf.close_f[rf.k]
           S1 == ExcludeSinusoids(sin, {j})
           new == ReExtract(S1, Residual(data.truth, S1), j, rf.i_harmonics)
       IN  /\ sin' = UpdateSinusoid(S1, j, new.f, new.a, new.ph)
           /\ lin' = LinearPars(data.truth, S1)
    /\ rf' = [rf EXCEPT !.k = @ + 1]
    /\ pc' = IF rf.k = Len(rf.close_f) THEN "rf_check" ELSE "rf_member"
    /\ UNCHANGED <<data, top, par, ex, rp, hist, xin, xout, rs, rg, fh, outer>>

\* a pass kept on any improvement of the unrounded BIC
PassImprovesUnrounded(bic_prev, bic) == bic_prev - bic > 0

\* line 259: a pass is kept when it improves the BIC
PassImproves(bic_prev, bic) == Round2Diff(bic_prev, bic) > 0

\* lines 251-273: trend, BIC, keep the pass or restore the remembered values
RfCheck ==
    /\ pc = "rf_check"
    /\ LET L1 == LinearPars(data.truth, sin)
           bic == Bic(data.truth, sin, L1)
           cond1 == PassImproves(rf.bic_prev, bic)
           S2 == UpdateSinusoids(sin, rf.copy, Range(rf.close_f))
       IN  /\ IF cond1
              THEN /\ sin' = sin
                   /\ lin' = L1
                   /\ rf' = [rf EXCEPT !.bic_prev = bic]
                   /\ pc' = "rf_pass"
              ELSE /\ sin' = S2
                   /\ lin' = LinearPars(data.truth, S2)
                   /\ rf' = rf
                   /\ pc' = rf.ret
           /\ hist' = [hist EXCEPT
                         !.passes = @ + 1,
                         !.good = IF Round2Diff(rf.bic_prev, bic) > 0
                                  THEN GetSinusoidParameters(sin) ELSE @,
                         !.ret = IF cond1 THEN "none" ELSE "refine"]
    /\ UNCHANGED <<data, top, par, ex, rp, xin, xout, rs, rg, fh, outer>>

(***************************************************************************)
(* replace_subset                                                          *)
(***************************************************************************)
\* lines 299-311
RpEntry ==
    /\ pc = "rp_entry"
    /\ rp' = [rp EXCEPT !.i_harmonics = {i \in Indices(sin) : sin[i].harm},
                        !.sets = consecutive_subsets(rp.close_f),
                        !.bic_prev = Bic(data.truth, sin, lin),
                        !.removed = <<>>, !.k = 1]
    /\ hist' = [hist EXCEPT !.entry = sin, !.added = <<>>, !.trials = 0, !.skips = 0,
                            !.ret = "none"]
    /\ pc' = "rp_set"
    /\ UNCHANGED <<data, sin, lin, top, par, ex, rf, xin, xout, rs, rg, fh, outer>>

\* a test that never finds a replaced sinusoid
NeverContainsRemoved(set_i, removed) == FALSE

\* line 314: the set contains a sinusoid that was replaced before
ContainsRemoved(set_i, removed) == Range(set_i) \cap Range(removed) # {}

\* lines 313-315: such a set is skipped
RpSkip ==
    /\ pc = "rp_set" /\ rp.k <= Len(rp.sets)
    /\ ContainsRemoved(rp.sets[rp.k], rp.removed)
    /\ rp' = [rp EXCEPT !.k = @ + 1]
    /\ hist' = [hist EXCEPT !.skips = @ + 1]
    /\ UNCHANGED <<data, sin, lin, pc, top, par, ex, rf, xin, xout, rs, rg, fh, outer>>

\* lines 322-334: the replacement of set_i; harmonics keep their frequencies,
\* otherwise one sinusoid is extracted from the interval of the set
Replacement(S, res, set_i, i_harmonics) ==
    LET harm_i == SelectSeq(set_i, LAMBDA h : h \in i_harmonics)
        fmin == CHOOSE x \in {S[i].f : i \in Range(set_i)} : \A i \in Range(set_i) : x <= S[i].f
        fmax == CHOOSE x \in {S[i].f : i \in Range(set_i)} : \A i \in Range(set_i) : x >= S[i].f
        loc == extract_local(res, fmin - FreqResReplace, fmax + FreqResReplace)
    IN  IF Len(harm_i) > 0
        THEN [k \in 1..Len(harm_i) |->
                Sinusoid(S[harm_i[k]].f, AmplAt(res, S[harm_i[k]].f),
                         PhaseAt(res, S[harm_i[k]].f), FALSE)]
        ELSE <<Sinusoid(loc.f, loc.a, loc.ph, FALSE)>>

\* lines 317-339: exclude the set, extract its replacement, add it
RpTrial ==
    /\ pc = "rp_set" /\ rp.k <= Len(rp.sets)
    /\ ~ContainsRemoved(rp.sets[rp.k], rp.removed)
    /\ LET set_i == rp.sets[rp.k]
           S1 == ExcludeSinusoids(sin, Range(set_i))
           new == Replacement(S1, Residual(data.truth, S1), set_i, rp.i_harmonics)
           S2 == AddSinusoids(S1, new)
       IN  /\ sin' = S2
           /\ lin' = LinearPars(data.truth, S2)
           /\ rp' = [rp EXCEPT !.n_c = Len(S1), !.n_new = Len(new)]
    /\ hist' = [hist EXCEPT !.trials = @ + 1, !.before = sin]
    /\ pc' = "rp_judge"
    /\ UNCHANGED <<data, top, par, ex, rf, xin, xout, rs, rg, fh, outer>>

\* a replacement kept when the rounded BIC is not higher
ReplacementNotWorse(bic_prev, bic) == Round2Diff(bic_prev, bic) >= 0

\* line 346: a replacement is kept when it improves the BIC
ReplacementImproves(bic_prev, bic) == Round2Diff(bic_prev, bic) > 0

\* lines 341-359: keep the replacement or undo the trial
RpJudge ==
    /\ pc = "rp_judge"
    /\ LET set_i == rp.sets[rp.k]
           bic == Bic(data.truth, sin, lin)
           cond1 == ReplacementImproves(rp.bic_prev, bic)
           new == (rp.n_c + 1)..(rp.n_c + rp.n_new)
           S2 == IncludeSinusoids(RemoveSinusoids(sin, new), Range(set_i))
       IN  /\ IF cond1
              THEN /\ rp' = [rp EXCEPT !.bic_prev = bic, !.removed = @ \o set_i, !.k = @ + 1]
                   /\ UNCHANGED <<sin, lin>>
              ELSE /\ sin' = S2
                   /\ lin' = LinearPars(data.truth, S2)
                   /\ rp' = [rp EXCEPT !.k = @ + 1]
           /\ hist' = [hist EXCEPT
                         !.trial = [base |-> rp.bic_prev, bic |-> bic, kept |-> cond1, set |-> set_i],
                         !.added = IF cond1 THEN @ \o SelectIdx(sin, new, 1) ELSE @]
    /\ pc' = "rp_set"
    /\ UNCHANGED <<data, top, par, ex, rf, xin, xout, rs, rg, fh, outer>>

\* line 361: delete what was replaced
RpFinish ==
    /\ pc = "rp_set" /\ rp.k > Len(rp.sets)
    /\ sin' = RemoveExcluded(sin)
    /\ hist' = [hist EXCEPT !.ret = "replace"]
    /\ pc' = rp.ret
    /\ UNCHANGED <<data, lin, top, par, ex, rf, rp, xin, xout, rs, rg, fh, outer>>

NextRefine == RfEntry \/ RfPass \/ RfMember \/ RfCheck

NextReplace == RpEntry \/ RpSkip \/ RpTrial \/ RpJudge \/ RpFinish

Next ==
    \/ ExEntry \/ ExLoopEnter \/ ExLoopExit \/ ExIter \/ ExReplace \/ ExDecide
    \/ NextRefine
    \/ NextReplace

Spec == Init /\ [][Next]_vars

(***************************************************************************)
(* refine_subset and replace_subset called on their own                    *)
(***************************************************************************)
\* contents of the time series, one with two signals closer than half the
\* Rayleigh criterion
SubsetContents ==
    Contents \cup { [truth |-> <<Line(3037, 60), Line(3300, 45)>>, knee |-> 0] }

\* models with a group of close frequencies, with and without harmonics, the
\* harmonics on and off the peak of the signal
ClusterModels ==
    { <<Sinusoid(f, a, 0, h), Sinusoid(3300, b, 0, FALSE)>> :
         f \in {3000, 3037}, a \in {40, 55}, b \in {30, 45}, h \in BOOLEAN }
    \cup { <<Sinusoid(3037, 61, 0, FALSE), Sinusoid(3721, 44, 0, h)>> : h \in BOOLEAN }
    \cup { <<Sinusoid(5400, 50, 0, FALSE), Sinusoid(3037, a, 0, h), Sinusoid(3300, 30, 0, FALSE),
             Sinusoid(3721, 44, 0, h2)>> : a \in {28, 61}, h \in BOOLEAN, h2 \in BOOLEAN }

InitSubset ==
    \E c \in SubsetContents, m \in ClusterModels, o \in {0, 1}, r \in {"refine", "replace"} :
        LET close_f == f_within_rayleigh(Len(m), m, Rayleigh)
            ols == LinearPars(c.truth, m)
        IN  /\ InitModel([truth |-> c.truth, knee |-> c.knee, fitoff |-> 0], m,
                         [ols EXCEPT !.const = @ + o])
            /\ top = r /\ par = IdlePar /\ ex = IdleEx
            /\ IF r = "refine"
               THEN /\ pc = "rf_entry"
                    /\ rf = [IdleRf EXCEPT !.close_f = close_f, !.ret = "rf_done"]
                    /\ rp = IdleRp
               ELSE /\ pc = "rp_entry"
                    /\ rp = [IdleRp EXCEPT !.close_f = close_f, !.ret = "rp_done"]
                    /\ rf = IdleRf

NextSubset == NextRefine \/ NextReplace

SpecSubset == InitSubset /\ [][NextSubset]_vars

(***************************************************************************)
(* The extractors called on their own                                      *)
(***************************************************************************)
\* residuals with a peak inside, at the edge of, or just outside the interval
EdgeFrequencies == {1940, 1990, 2000, 2037, 2963, 3960, 4000, 4010, 4060}

EdgeResiduals ==
    { <<Line(f, 60)>> : f \in EdgeFrequencies }
    \cup { <<Line(p[1], 60), Line(p[2], 30)>> :
              p \in {q \in EdgeFrequencies \X EdgeFrequencies : q[1] # q[2]} }

InitExtractors ==
    \E r \in EdgeResiduals, k \in {0, 30 * Df} :
        /\ xin = [res |-> r, f0 |-> 20 * Df, fn |-> 40 * Df, knee |-> k]
        /\ xout = IdleXout
        /\ pc = "x_call" /\ top = "extractor"
        /\ data = [truth |-> <<>>, knee |-> 0, fitoff |-> 0]
        /\ sin = <<>> /\ lin = [const |-> 0, slope |-> 0]
        /\ par = IdlePar /\ ex = IdleEx /\ rf = IdleRf /\ rp = IdleRp /\ hist = IdleHist
        /\ rs = IdleRs /\ rg = IdleRg /\ fh = IdleFh
        /\ fo = IdleFo /\ store = IdleStore /\ files = IdleFiles /\ gui = IdleGui /\ IdleLater

Returned(call, r) == [call |-> call, f |-> r.f, a |-> r.a, ph |-> r.ph]

CallExtractSingle ==
    /\ pc = "x_call"
    /\ \E select \in {"a", "sn"} :
          xout' = Returned("extract_single",
                           extract_single(xin.res, xin.knee, xin.f0, xin.fn, select))
    /\ pc' = "x_done"
    /\ UNCHANGED <<data, sin, lin, top, par, ex, rf, rp, hist, xin, rs, rg, fh, outer>>

CallExtractLocal ==
    /\ pc = "x_call"
    /\ xout' = Returned("extract_local", extract_local(xin.res, xin.f0, xin.fn))
    /\ pc' = "x_done"
    /\ UNCHANGED <<data, sin, lin, top, par, ex, rf, rp, hist, xin, rs, rg, fh, outer>>

NextExtractors == CallExtractSingle \/ CallExtractLocal

SpecExtractors == InitExtractors /\ [][NextExtractors]_vars

(***************************************************************************)
(* Parameter counting and harmonic bookkeeping of the reduction routines   *)
(***************************************************************************)
Forb == 25 * Df                   \* orbital frequency 1 / p_orb of the inputs

\* ut.n_parameters(n_chunks, n_sin, n_harm): 2 per chunk, 3 per sinusoid that
\* is not a harmonic, 1 per harmonic; n_sin is the total number of sinusoids
n_parameters(n_chunks, n_sin, n_harm) == 2 * n_chunks + 3 * (n_sin - n_harm) + n_harm

\* gof.calc_bic(resid - linear_curve(const, slope), n_param)
calc_bic(truth, S, L, n_param) ==
    LET ols == LinearPars(truth, S)
        dc == L.const - ols.const
        ds == L.slope - ols.slope
    IN  Rss(Residual(truth, S)) + TrendWeight * (dc * dc + ds * ds) + PenaltyPerParam * n_param

\* frs.find_harmonics_from_pattern(f_n, p_orb, f_tol=1e-9): for every harmonic
\* number the sinusoid at exactly n / p_orb, in order of harmonic number
find_harmonics_from_pattern(S, f_orb) ==
    SortByFreq(S, {i \in Indices(S) :
                      /\ S[i].f > 0 /\ S[i].f % f_orb = 0
                      /\ \A j \in 1..(i - 1) : S[j].f # S[i].f})

\* the parameter count of a sinusoid set under the one rule of n_parameters
CountOf(S, f_orb) ==
    n_parameters(NChunks, Cardinality(Included(S)),
                 Cardinality(Range(find_harmonics_from_pattern(S, f_orb)) \cap Included(S)))

\* BIC of a sinusoid set with its least-squares trend and its own parameter count
BicOf(truth, S, f_orb) == calc_bic(truth, S, LinearPars(truth, S), CountOf(S, f_orb))

(***************************************************************************)
(* remove_sinusoids_single                                                 *)
(***************************************************************************)
\* the sinusoids that are left when the ones in remove_single are taken out
Remaining(S, removed) == ExcludeSinusoids(S, Range(removed))

\* lines 826-828: number of harmonics and of other sinusoids left in a trial
TrialHarmonics(n_harm, removed, harmonics, i) ==
    n_harm - Cardinality(Range(removed) \cap Range(harmonics))
           - (IF i \in Range(harmonics) THEN 1 ELSE 0)

TrialSinusoids(n_sin, removed, n_harm_i) == n_sin - Len(removed) - 1 - n_harm_i

\* line 833: a deletion is kept when the rounded BIC goes down
RemovalImproves(bic_prev, bic) == Round2Diff(bic_prev, bic) > 0

\* lines 796-811: bookkeeping and the BIC of the input model
RsEntry ==
    /\ pc = "rs_entry"
    /\ LET harmonics == find_harmonics_from_pattern(sin, data.f_orb)
           n_sin == Len(sin)
           n_harm == Len(harmonics)
           bic == calc_bic(data.truth, sin, lin, n_parameters(NChunks, n_sin, n_harm))
       IN  rs' = [rs EXCEPT !.harmonics = harmonics, !.n_sin = n_sin, !.n_harm = n_harm,
                            !.remove_single = <<>>, !.bic_prev = bic, !.bic_init = bic,
                            !.n_prev = 0 - 1,
                            !.args_base = <<NChunks, n_sin, n_harm>>]
    /\ pc' = "rs_while"
    /\ UNCHANGED <<data, sin, lin, top, par, ex, rf, rp, hist, xin, xout, rg, fh, outer>>

\* another pass also when the last one removed nothing
RsPassesGoOn(removed, n_prev) == Len(removed) >= n_prev

\* line 814: another pass when the last one removed something
RsMorePasses(removed, n_prev) == Len(removed) > n_prev

RsPass ==
    /\ pc = "rs_while"
    /\ RsMorePasses(rs.remove_single, rs.n_prev)
    /\ rs' = [rs EXCEPT !.n_prev = Len(rs.remove_single), !.i = 1, !.passes = @ + 1]
    /\ pc' = "rs_for"
    /\ UNCHANGED <<data, sin, lin, top, par, ex, rf, rp, hist, xin, xout, rg, fh, outer>>

\* lines 817-818: a removed sinusoid is not tried again
RsSkip ==
    /\ pc = "rs_for"
    /\ rs.i <= rs.n_sin
    /\ rs.i \in Range(rs.remove_single)
    /\ rs' = [rs EXCEPT !.i = @ + 1]
    /\ UNCHANGED <<data, sin, lin, pc, top, par, ex, rf, rp, hist, xin, xout, rg, fh, outer>>

\* lines 821-836: the model without sinusoid i, its trend and its BIC
RsTrial ==
    /\ pc = "rs_for"
    /\ rs.i <= rs.n_sin
    /\ rs.i \notin Range(rs.remove_single)
    /\ LET i == rs.i
           cur == Remaining(sin, rs.remove_single)
           trial == ExcludeSinusoids(cur, {i})
           L == LinearPars(data.truth, trial)
           n_harm_i == TrialHarmonics(rs.n_harm, rs.remove_single, rs.harmonics, i)
           n_sin_i == TrialSinusoids(rs.n_sin, rs.remove_single, n_harm_i)
           bic == calc_bic(data.truth, trial, L, n_parameters(NChunks, n_sin_i, n_harm_i))
           keep == RemovalImproves(rs.bic_prev, bic)
           gain == Round2Diff(BicOf(data.truth, cur, data.f_orb), BicOf(data.truth, trial, data.f_orb))
       IN  /\ lin' = L
           /\ rs' = [rs EXCEPT !.i = @ + 1, !.trials = @ + 1,
                               !.args_trial = <<NChunks, n_sin_i, n_harm_i>>,
                               !.trial_set = Range(rs.remove_single) \cup {i},
                               !.remove_single = IF keep THEN Append(@, i) ELSE @,
                               !.bic_prev = IF keep THEN bic ELSE @,
                               !.gains = IF keep THEN Append(@, gain) ELSE @]
    /\ UNCHANGED <<data, sin, pc, top, par, ex, rf, rp, hist, xin, xout, rg, fh, outer>>

RsPassEnd ==
    /\ pc = "rs_for"
    /\ rs.i > rs.n_sin
    /\ pc' = "rs_while"
    /\ UNCHANGED <<data, sin, lin, top, par, ex, rf, rp, hist, xin, xout, rs, rg, fh, outer>>

\* lines 839-850: final trend and the reduced arrays
RsFinish ==
    /\ pc = "rs_while"
    /\ ~RsMorePasses(rs.remove_single, rs.n_prev)
    /\ LET out == RemoveSinusoids(sin, Range(rs.remove_single))
       IN  /\ sin' = out
           /\ lin' = LinearPars(data.truth, out)
    /\ pc' = "rs_done"
    /\ UNCHANGED <<data, top, par, ex, rf, rp, hist, xin, xout, rs, rg, fh, outer>>

NextRemoveSingle == RsEntry \/ RsPass \/ RsSkip \/ RsTrial \/ RsPassEnd \/ RsFinish

(***************************************************************************)
(* replace_sinusoid_groups                                                 *)
(***************************************************************************)
FreqResRayleigh == 15 * Df        \* 1.5 / np.ptp(time)
FreqResGroups == 10 * Df          \* freq_res = 1 / np.ptp(time)

\* frs.chains_within_rayleigh(f_n, rayleigh): the sinusoids I in order of
\* frequency, cut where neighbours are not closer than the resolution
chains_within_rayleigh(S, I, rayleigh) ==
    LET order == SortByFreq(S, I)
        n == Len(order)
        cut(p) == p = 1 \/ S[order[p]].f - S[order[p - 1]].f >= rayleigh
        endOf(p) == CHOOSE r \in p..n :
                       /\ \A q \in (p + 1)..r : ~cut(q)
                       /\ (r = n \/ cut(r + 1))
        RECURSIVE from(_)
        from(p) == IF p > n THEN <<>> ELSE <<SubSeq(order, p, endOf(p))>> \o from(endOf(p) + 1)
    IN  from(1)

\* lines 910-913: every run g[p1..p2] with p1 < p2 of a group
SubChains(g) ==
    LET n == Len(g)
        row(p1) == [k \in 1..(n - p1) |-> SubSeq(g, p1, p1 + k)]
        RECURSIVE from(_)
        from(p1) == IF p1 >= n THEN <<>> ELSE row(p1) \o from(p1 + 1)
    IN  from(1)

RECURSIVE AllSubChains(_, _)
AllSubChains(groups, k) ==
    IF k > Len(groups) THEN <<>> ELSE SubChains(groups[k]) \o AllSubChains(groups, k + 1)

\* lines 908-913: the sets of sinusoids that are not harmonics
PlainSets(S, harmonics, rayleigh) ==
    AllSubChains(chains_within_rayleigh(S, Indices(S) \ Range(harmonics), rayleigh), 1)

\* lines 916-921: the sets, of all sinusoids, that hold at least one harmonic
HarmonicSets(S, harmonics, rayleigh) ==
    SelectSeq(AllSubChains(chains_within_rayleigh(S, Indices(S), rayleigh), 1),
              LAMBDA set : Range(set) \cap Range(harmonics) # {})

\* the model that belongs to best_resid: the input without the replaced
\* sets, with the replacements
BestModel(S, f_sets, remove_sets, new) ==
    ExcludeSinusoids(S, UNION {Range(f_sets[j]) : j \in Range(remove_sets)}) \o new

\* one sinusoid extracted around the set, whatever the set holds
GroupReplacementByPeak(S, res, set_i, in_harm_sets, harmonics) ==
    LET fmin == CHOOSE x \in {S[i].f : i \in Range(set_i)} : \A i \in Range(set_i) : x <= S[i].f
        fmax == CHOOSE x \in {S[i].f : i \in Range(set_i)} : \A i \in Range(set_i) : x >= S[i].f
        out == extract_local(res, fmin - 10 * Df, fmax + 10 * Df)
    IN  <<Sinusoid(out.f, out.a, out.ph, FALSE)>>

\* lines 954-961: the replacement of a set; in a set with harmonics these keep
\* their frequencies, otherwise one sinusoid is extracted around the set
GroupReplacement(S, res, set_i, in_harm_sets, harmonics) ==
    LET harm_i == SelectSeq(set_i, LAMBDA h : h \in Range(harmonics))
        fmin == CHOOSE x \in {S[i].f : i \in Range(set_i)} : \A i \in Range(set_i) : x <= S[i].f
        fmax == CHOOSE x \in {S[i].f : i \in Range(set_i)} : \A i \in Range(set_i) : x >= S[i].f
        out == extract_local(res, fmin - FreqResGroups, fmax + FreqResGroups)
    IN  IF in_harm_sets
        THEN [k \in 1..Len(harm_i) |->
                Sinusoid(S[harm_i[k]].f, AmplAt(res, S[harm_i[k]].f),
                         PhaseAt(res, S[harm_i[k]].f), FALSE)]
        ELSE <<Sinusoid(out.f, out.a, out.ph, FALSE)>>

\* line 969: number of sinusoids counted for a trial
GroupTrialSinusoids(n_sin, f_sets, remove_sets, set_i, f_new, f_i, n_harm) ==
    n_sin - SeqSum([k \in 1..Len(remove_sets) |-> Len(f_sets[remove_sets[k]])])
          - Len(set_i) + Len(f_new) + Len(f_i) - n_harm

\* only the set itself
OverlapSelfOnly(f_sets, set_i) == {j \in 1..Len(f_sets) : f_sets[j] = set_i}

\* line 974: the sets that share a sinusoid with set_i
Overlap(f_sets, set_i) ==
    {j \in 1..Len(f_sets) : Range(f_sets[j]) \cap Range(set_i) # {}}

\* lines 900-937: the candidate sets and the BIC of the input model
RgEntry ==
    /\ pc = "rg_entry"
    /\ LET harmonics == find_harmonics_from_pattern(sin, data.f_orb)
           n_sin == Len(sin)
           n_harm == Len(harmonics)
           plain == PlainSets(sin, harmonics, FreqResGroups)
           with_h == HarmonicSets(sin, harmonics, FreqResGroups)
           bic == calc_bic(data.truth, sin, lin, n_parameters(NChunks, n_sin, n_harm))
       IN  rg' = [rg EXCEPT !.harmonics = harmonics, !.n_sin = n_sin, !.n_harm = n_harm,
                            !.f_sets = plain \o with_h,
                            !.harm_sets = (Len(plain) + 1)..(Len(plain) + Len(with_h)),
                            !.remove_sets = <<>>, !.used_sets = {}, !.new = <<>>,
                            !.bic_prev = bic, !.bic_init = bic, !.n_prev = 0 - 1,
                            !.args_base = <<NChunks, n_sin, n_harm>>]
    /\ hist' = [hist EXCEPT !.entry = sin]
    /\ pc' = "rg_while"
    /\ UNCHANGED <<data, sin, lin, top, par, ex, rf, rp, xin, xout, rs, fh, outer>>

\* line 940: another pass when the last one replaced something
RgMorePasses(remove_sets, n_prev) == Len(remove_sets) > n_prev

RgPass ==
    /\ pc = "rg_while"
    /\ RgMorePasses(rg.remove_sets, rg.n_prev)
    /\ rg' = [rg EXCEPT !.n_prev = Len(rg.remove_sets), !.i = 1, !.passes = @ + 1]
    /\ pc' = "rg_for"
    /\ UNCHANGED <<data, sin, lin, top, par, ex, rf, rp, hist, xin, xout, rs, fh, outer>>

\* lines 943-944: a used set is not tried
RgSkip ==
    /\ pc = "rg_for"
    /\ rg.i <= Len(rg.f_sets)
    /\ rg.i \in rg.used_sets
    /\ rg' = [rg EXCEPT !.i = @ + 1, !.skips = @ + 1]
    /\ UNCHANGED <<data, sin, lin, pc, top, par, ex, rf, rp, hist, xin, xout, rs, fh, outer>>

\* lines 947-983: take the set out, put its replacement in, compare the BIC of
\* the residual without the trend of the trial model
RgTrial ==
    /\ pc = "rg_for"
    /\ rg.i <= Len(rg.f_sets)
    /\ rg.i \notin rg.used_sets
    /\ LET i == rg.i
           set_i == rg.f_sets[i]
           best == BestModel(sin, rg.f_sets, rg.remove_sets, rg.new)
           S1 == ExcludeSinusoids(best, Range(set_i))
           f_i == GroupReplacement(S1, Residual(data.truth, S1), set_i, i \in rg.harm_sets,
                                   rg.harmonics)
           S2 == S1 \o f_i
           L1 == LinearPars(data.truth, S1)
           L == LinearPars(data.truth, S2)
           n_sin_i == GroupTrialSinusoids(rg.n_sin, rg.f_sets, rg.remove_sets, set_i, rg.new,
                                          f_i, rg.n_harm)
           bic == calc_bic(data.truth, S2, L, n_parameters(NChunks, n_sin_i, rg.n_harm))
           keep == RemovalImproves(rg.bic_prev, bic)
       IN  \* line 965 fits the residual from which the trend of line 949 is
           \* already taken: const, slope hold the difference of the two
           /\ lin' = [const |-> L.const - L1.const, slope |-> L.slope - L1.slope]
           /\ rg' = [rg EXCEPT !.i = @ + 1, !.trials = @ + 1,
                               !.args_trial = <<NChunks, n_sin_i, rg.n_harm>>,
                               !.trial_size = Cardinality(Included(S2)),
                               !.trial_set = set_i,
                               !.kept = keep,
                               !.used_sets = IF keep THEN @ \cup Overlap(rg.f_sets, set_i) ELSE @,
                               !.remove_sets = IF keep THEN Append(@, i) ELSE @,
                               !.new = IF keep THEN @ \o f_i ELSE @,
                               !.bic_prev = IF keep THEN bic ELSE @]
    /\ UNCHANGED <<data, sin, pc, top, par, ex, rf, rp, hist, xin, xout, rs, fh, outer>>

RgPassEnd ==
    /\ pc = "rg_for"
    /\ rg.i > Len(rg.f_sets)
    /\ pc' = "rg_while"
    /\ UNCHANGED <<data, sin, lin, top, par, ex, rf, rp, hist, xin, xout, rs, rg, fh, outer>>

\* lines 989-992: the indices of the accepted sets, with repetitions
IndicesToRemove(f_sets, remove_sets) ==
    LET RECURSIVE from(_)
        from(k) == IF k > Len(remove_sets) THEN <<>>
                   ELSE f_sets[remove_sets[k]] \o from(k + 1)
    IN  from(1)

\* lines 986-998: final trend, the reduced arrays and the replacements
RgFinish ==
    /\ pc = "rg_while"
    /\ ~RgMorePasses(rg.remove_sets, rg.n_prev)
    /\ LET i_to_remove == IndicesToRemove(rg.f_sets, rg.remove_sets)
           out == RemoveSinusoids(sin, Range(i_to_remove)) \o rg.new
       IN  /\ sin' = out
           /\ lin' = LinearPars(data.truth, out)
    /\ pc' = "rg_done"
    /\ UNCHANGED <<data, top, par, ex, rf, rp, hist, xin, xout, rs, rg, fh, outer>>

NextReplaceGroups == RgEntry \/ RgPass \/ RgSkip \/ RgTrial \/ RgPassEnd \/ RgFinish

(***************************************************************************)
(* The reduction routines called on a final model                          *)
(***************************************************************************)
\* time series and models for remove_sinusoids_single: strong and weak
\* signals, spurious sinusoids, with and without harmonics of the orbit
SingleCases ==
    { [truth |-> <<Line(2500, 60), Line(3800, 35)>>,
       m |-> <<Sinusoid(2500, 60, 0, FALSE), Sinusoid(3800, 35, 0, FALSE)>>],
      [truth |-> <<Line(2537, 60), Line(3800, 35)>>,
       m |-> <<Sinusoid(2537, 60, 0, FALSE), Sinusoid(3800, 35, 0, FALSE)>>],
      [truth |-> <<Line(2500, 15), Line(3800, 60)>>,
       m |-> <<Sinusoid(3800, 60, 0, FALSE), Sinusoid(4400, 30, 0, FALSE),
               Sinusoid(2500, 15, 0, FALSE)>>],
      [truth |-> <<Line(2500, 15), Line(3800, 60)>>,
       m |-> <<Sinusoid(2500, 15, 0, FALSE), Sinusoid(3800, 60, 0, FALSE),
               Sinusoid(4400, 30, 0, FALSE)>>],
      [truth |-> <<Line(2537, 15), Line(3800, 60)>>,
       m |-> <<Sinusoid(3800, 60, 0, FALSE), Sinusoid(4400, 30, 0, FALSE),
               Sinusoid(2537, 15, 0, FALSE)>>],
      [truth |-> <<Line(3037, 60), Line(3721, 25), Line(5000, 50)>>,
       m |-> <<Sinusoid(3721, 25, 0, FALSE), Sinusoid(3037, 60, 0, FALSE),
               Sinusoid(5000, 50, 0, FALSE), Sinusoid(5600, 20, 0, FALSE)>>],
      [truth |-> <<Line(3037, 60)>>, m |-> <<>>] }

\* time series and models for replace_sinusoid_groups: pairs and chains of
\* close sinusoids, next to a harmonic or not, and pairs that are further
\* apart than 1 / t_tot
GroupCases ==
    { [truth |-> <<Line(3800, 60)>>,
       m |-> <<Sinusoid(3700, 35, 0, FALSE), Sinusoid(3900, 35, 0, FALSE)>>],
      [truth |-> <<Line(3400, 50), Line(4100, 50)>>,
       m |-> <<Sinusoid(3300, 30, 0, FALSE), Sinusoid(3500, 30, 0, FALSE),
               Sinusoid(4100, 50, 0, FALSE)>>],
      [truth |-> <<Line(2500, 60), Line(2900, 20)>>,
       m |-> <<Sinusoid(2500, 50, 0, FALSE), Sinusoid(2900, 30, 0, FALSE)>>],
      [truth |-> <<Line(2900, 20), Line(5000, 60)>>,
       m |-> <<Sinusoid(2900, 30, 0, FALSE), Sinusoid(5000, 60, 0, FALSE),
               Sinusoid(2500, 10, 0, FALSE)>>],
      [truth |-> <<Line(2500, 60), Line(3800, 60)>>,
       m |-> <<Sinusoid(3700, 35, 0, FALSE), Sinusoid(2500, 60, 0, FALSE),
               Sinusoid(3900, 35, 0, FALSE)>>],
      [truth |-> <<Line(4000, 60)>>,
       m |-> <<Sinusoid(3400, 35, 0, FALSE), Sinusoid(4600, 35, 0, FALSE)>>],
      [truth |-> <<Line(3037, 60), Line(4437, 50)>>,
       m |-> <<Sinusoid(3037, 60, 0, FALSE), Sinusoid(4437, 50, 0, FALSE)>>],
      [truth |-> <<Line(3037, 60), Line(3721, 56)>>,
       m |-> <<Sinusoid(3037, 60, 0, FALSE), Sinusoid(3721, 56, 0, FALSE)>>] }

InitReduce ==
    \E r \in {"single", "groups"}, o \in {0, 1} :
        \E c \in (IF r = "single" THEN SingleCases ELSE GroupCases) :
            LET ols == LinearPars(c.truth, c.m)
            IN  /\ InitModel([truth |-> c.truth, knee |-> 0, fitoff |-> 0, f_orb |-> Forb], c.m,
                             [ols EXCEPT !.const = @ + o])
                /\ top = r
                /\ pc = IF r = "single" THEN "rs_entry" ELSE "rg_entry"
                /\ par = IdlePar /\ ex = IdleEx /\ rf = IdleRf /\ rp = IdleRp

NextReduce == NextRemoveSingle \/ NextReplaceGroups

SpecReduce == InitReduce /\ [][NextReduce]_vars

(***************************************************************************)
(* fix_harmonic_frequency                                                  *)
(***************************************************************************)
\* the harmonic number nearest to a frequency, at least 1
HarmonicNumber(f, f_orb) == Max(1, (2 * f + f_orb) \div (2 * f_orb))

\* frs.find_harmonics_tolerance(f_n, p_orb, f_tol): the sinusoids closer than
\* f_tol to a harmonic of the orbit, in order of index
find_harmonics_tolerance(S, f_orb, f_tol) ==
    SelectSeq([i \in Indices(S) |-> i],
              LAMBDA i : Abs(S[i].f - HarmonicNumber(S[i].f, f_orb) * f_orb) < f_tol)

\* np.unique: the distinct values in ascending order
RECURSIVE Unique(_)
Unique(V) ==
    IF V = {} THEN <<>>
    ELSE LET lo == CHOOSE x \in V : \A y \in V : x <= y
         IN  <<lo>> \o Unique(V \ {lo})

\* the routine goes on although there is no candidate
NeverRaises(harmonics) == FALSE

\* line 658: no sinusoid is a candidate harmonic
NoHarmonics(harmonics) == Len(harmonics) = 0

\* lines 656-675: the candidate harmonics; without any the routine raises
FhEntry ==
    /\ pc = "fh_entry"
    /\ LET harmonics == find_harmonics_tolerance(sin, data.f_orb, Rayleigh \div 2)
           harmonic_n == [k \in 1..Len(harmonics) |->
                             HarmonicNumber(sin[harmonics[k]].f, data.f_orb)]
       IN  IF NoHarmonics(harmonics)
           THEN /\ pc' = "fh_raised"
                /\ fh' = [fh EXCEPT !.error = "ValueError"]
           ELSE /\ pc' = "fh_harm"
                /\ fh' = [fh EXCEPT !.cand = harmonics, !.cand_n = harmonic_n,
                                    !.n_list = Unique(Range(harmonic_n)), !.k = 1,
                                    !.remove_harm_c = <<>>, !.new = <<>>,
                                    !.resid = sin]
    /\ hist' = [hist EXCEPT !.entry = sin, !.pre_lin = lin]
    /\ UNCHANGED <<data, sin, lin, top, par, ex, rf, rp, xin, xout, rs, rg, outer>>

\* the first candidate of harmonic number n only
FirstCandidateOf(harmonics, harmonic_n, n) ==
    LET k == CHOOSE k \in 1..Len(harmonics) :
                 harmonic_n[k] = n /\ \A l \in 1..(k - 1) : harmonic_n[l] # n
    IN  <<harmonics[k]>>

\* line 678: the candidates of harmonic number n
CandidatesOf(harmonics, harmonic_n, n) ==
    LET ks == SelectSeq([k \in 1..Len(harmonics) |-> k], LAMBDA k : harmonic_n[k] = n)
    IN  [l \in 1..Len(ks) |-> harmonics[ks[l]]]

\* lines 678-696: all candidates of harmonic number n make place for one
\* sinusoid at n / p_orb
FhHarmonic ==
    /\ pc = "fh_harm"
    /\ fh.k <= Len(fh.n_list)
    /\ LET n == fh.n_list[fh.k]
           remove == CandidatesOf(fh.cand, fh.cand_n, n)
           cur == ExcludeSinusoids(sin, Range(fh.remove_harm_c) \cup Range(remove)) \o fh.new
           ols == LinearPars(data.truth, fh.resid)
           f_i == n * data.f_orb
           res == Residual(data.truth, cur)
       IN  /\ lin' = [const |-> ols.const - lin.const, slope |-> ols.slope - lin.slope]
           /\ fh' = [fh EXCEPT !.k = @ + 1,
                               !.new = Append(@, Sinusoid(f_i, AmplAt(res, f_i), PhaseAt(res, f_i), FALSE)),
                               !.remove_harm_c = @ \o remove,
                               !.resid = cur]
    /\ UNCHANGED <<data, sin, pc, top, par, ex, rf, rp, hist, xin, xout, rs, rg, outer>>

\* the new harmonics put in front
MergeHarmonicsInFront(S, remove_harm_c, new) == new \o RemoveSinusoids(S, Range(remove_harm_c))

\* lines 701-703: the arrays without the candidates, the new harmonics appended
MergeHarmonics(S, remove_harm_c, new) == RemoveSinusoids(S, Range(remove_harm_c)) \o new

\* every index counts as not harmonic
NonHarmonicsAll(n_sin, harmonics) == [i \in 1..n_sin |-> i]

\* line 708: the indices that are not harmonics, in ascending order
NonHarmonics(n_sin, harmonics) == SelectSeq([i \in 1..n_sin |-> i], LAMBDA i : i \notin Range(harmonics))

\* lines 701-710: the new arrays and the sinusoids to re-extract
FhMerge ==
    /\ pc = "fh_harm"
    /\ fh.k > Len(fh.n_list)
    /\ LET f_n == MergeHarmonics(sin, fh.remove_harm_c, fh.new)
           harmonics == find_harmonics_from_pattern(f_n, data.f_orb)
       IN  fh' = [fh EXCEPT !.f = f_n, !.merged = f_n, !.harmonics = harmonics,
                            !.non_harm = NonHarmonics(Len(f_n), harmonics),
                            !.remove_non_harm = <<>>, !.k = 1]
    /\ pc' = "fh_non"
    /\ UNCHANGED <<data, sin, lin, top, par, ex, rf, rp, hist, xin, xout, rs, rg, outer>>

\* line 722: the new frequency is not within one resolution unit of the old one
DriftedOut(f, f_start, freq_res) == f <= f_start - freq_res \/ f >= f_start + freq_res

\* lines 712-726: re-extract one sinusoid that is not a harmonic
FhNonHarm ==
    /\ pc = "fh_non"
    /\ fh.k <= Len(fh.non_harm)
    /\ LET i == fh.non_harm[fh.k]
           S1 == ExcludeSinusoids(fh.f, {i})
           out == extract_approx(Residual(data.truth, S1), fh.f[i].f)
       IN  /\ lin' = LinearPars(data.truth, S1)
           /\ fh' = [fh EXCEPT !.k = @ + 1,
                               !.f = UpdateSinusoid(@, i, out.f, out.a, out.ph),
                               !.remove_non_harm =
                                  IF DriftedOut(out.f, fh.f[i].f, Rayleigh) THEN Append(@, i) ELSE @]
    /\ UNCHANGED <<data, sin, pc, top, par, ex, rf, rp, hist, xin, xout, rs, rg, outer>>

\* lines 729-746: delete non_harm[remove_non_harm], final trend, return
FhFinish ==
    /\ pc = "fh_non"
    /\ fh.k > Len(fh.non_harm)
    /\ IF \E r \in Range(fh.remove_non_harm) : r > Len(fh.non_harm)
       THEN /\ pc' = "fh_raised"
            /\ fh' = [fh EXCEPT !.error = "IndexError"]
            /\ UNCHANGED <<sin, lin>>
       ELSE LET deleted == {fh.non_harm[r] : r \in Range(fh.remove_non_harm)}
                out == RemoveSinusoids(fh.f, deleted)
            IN  /\ sin' = out
                /\ lin' = LinearPars(data.truth, out)
                /\ fh' = [fh EXCEPT !.deleted = deleted]
                /\ pc' = "fh_done"
    /\ UNCHANGED <<data, top, par, ex, rf, rp, hist, xin, xout, rs, rg, outer>>

NextFixHarmonic == FhEntry \/ FhHarmonic \/ FhMerge \/ FhNonHarm \/ FhFinish

\* time series and models for fix_harmonic_frequency: candidates near one or
\* two harmonics and at any position, none at all, and sinusoids that move
\* a little or far when they are extracted again
HarmonicCases ==
    { [truth |-> <<Line(2500, 60), Line(3800, 40)>>,
       m |-> <<Sinusoid(2480, 40, 0, FALSE), Sinusoid(2600, 25, 0, FALSE),
               Sinusoid(3800, 40, 0, FALSE)>>],
      [truth |-> <<Line(2537, 60), Line(3900, 40)>>,
       m |-> <<Sinusoid(3800, 35, 0, FALSE), Sinusoid(2537, 60, 0, FALSE)>>],
      [truth |-> <<Line(2500, 55), Line(3800, 40), Line(5000, 30)>>,
       m |-> <<Sinusoid(2450, 50, 0, FALSE), Sinusoid(3800, 40, 0, FALSE),
               Sinusoid(5100, 30, 0, FALSE)>>],
      [truth |-> <<Line(2500, 60), Line(4600, 30), Line(5400, 60)>>,
       m |-> <<Sinusoid(2500, 60, 0, FALSE), Sinusoid(3800, 20, 0, FALSE)>>],
      [truth |-> <<Line(2500, 60), Line(3300, 30), Line(4600, 30), Line(5400, 60)>>,
       m |-> <<Sinusoid(3800, 20, 0, FALSE), Sinusoid(2480, 55, 0, FALSE),
               Sinusoid(3300, 30, 0, FALSE)>>],
      [truth |-> <<Line(2500, 60), Line(3300, 30), Line(4600, 30), Line(5400, 60)>>,
       m |-> <<Sinusoid(3300, 30, 0, FALSE), Sinusoid(2480, 55, 0, FALSE),
               Sinusoid(3800, 20, 0, FALSE)>>],
      [truth |-> <<Line(3800, 40)>>, m |-> <<Sinusoid(3800, 40, 0, FALSE)>>],
      [truth |-> <<Line(3300, 30), Line(4200, 20)>>,
       m |-> <<Sinusoid(3300, 30, 0, FALSE), Sinusoid(4200, 20, 0, FALSE)>>],
      [truth |-> <<Line(2500, 60)>>, m |-> <<>>] }

InitHarmonic ==
    \E c \in HarmonicCases, o \in {0, 1, 2} :
        LET ols == LinearPars(c.truth, c.m)
        IN  /\ InitModel([truth |-> c.truth, knee |-> 0, fitoff |-> 0, f_orb |-> Forb], c.m,
                         [ols EXCEPT !.const = @ + o])
            /\ top = "harmonic" /\ pc = "fh_entry"
            /\ par = IdlePar /\ ex = IdleEx /\ rf = IdleRf /\ rp = IdleRp

SpecHarmonic == InitHarmonic /\ [][NextFixHarmonic]_vars

(***************************************************************************)
(* The loops of the core run to their end: the routines are sequential    *)
(* code, so a step that can be taken is taken                              *)
(***************************************************************************)
InitLoops == InitSubset \/ InitReduce

NextLoops == NextSubset \/ NextReduce

SpecLoops == InitLoops /\ [][NextLoops]_vars /\ WF_vars(NextLoops)

(***************************************************************************)
(* find_orbital_period and refine_orbital_period                           *)
(* The periods, the bounds of the dense grids and the measures are the     *)
(* doubles of the code. The frequencies f_n of the sinusoids, freq_res and *)
(* f_nyquist are whole numbers in the unit of the frequencies, 0.001 per   *)
(* day for a time series of one day. frs gets its test frequencies in      *)
(* 1 / GridRes of that unit, each the double to the nearest whole number,  *)
(* and gives n_harm as a whole number, completeness as the double of       *)
(* n_harm / (f_nyquist // f_test) and distance as a whole number of        *)
(* 1 / GridRes of the unit                                                 *)
(***************************************************************************)
FNyquist == 205 * Df              \* f_nyquist = 1 / (2 * np.min(np.diff(time)))
GridRes == 100000                 \* dense grid: steps of 0.00001 / p_orb

\* the result of a call that ended in the ValueError of np.max, np.argmax or
\* np.argmin on an empty array
ValueError == [form |-> "ValueError", m |-> BigZero, e |-> 0]

\* np.argmin of whole numbers: index of the first minimum of v[1..n]
ArgMin(v, n) == ArgMax([k \in 1..n |-> 0 - v[k]], n)

\* np.max of doubles: not a number if one of them is
NpMax(v) ==
    IF \E k \in 1..Len(v) : v[k].form = "nan" THEN FlNaN
    ELSE CHOOSE x \in Range(v) : \A y \in Range(v) : ~FlGt(y, x)

\* np.argmax of doubles: the index of the first that is not a number, and
\* else of the first maximum
NpArgMax(v) ==
    Bind(NpMax(v), LAMBDA top_value :
        IF top_value.form = "nan"
        THEN CHOOSE k \in 1..Len(v) : v[k].form = "nan" /\ \A j \in 1..(k - 1) : v[j].form # "nan"
        ELSE CHOOSE k \in 1..Len(v) : v[k] = top_value /\ \A j \in 1..(k - 1) : v[j] # top_value)

\* an operation of numpy on every element of an array, worked out once for
\* every distinct element
Elementwise(v, Op(_)) ==
    Bind([x \in Range(v) |-> Op(x)], LAMBDA of : [k \in 1..Len(v) |-> of[v[k]]])

\* indices of the set I in ascending order of F, ties by index
OrderByValue(F, I) ==
    Bind(I, LAMBDA J :
        [k \in 1..Cardinality(J) |->
            CHOOSE i \in J :
                Cardinality({j \in J : F[j] < F[i] \/ (F[j] = F[i] /\ j < i)}) = k - 1])

\* the harmonic number n of the test frequency f_test that is nearest to the
\* frequency f, at least 1, and the distance d of f to n * f_test
HarmonicOf(f, f_test) ==
    LET q == (f * GridRes) \div f_test
        r == (f * GridRes) % f_test
    IN  IF q = 0 \/ r >= f_test - r THEN [n |-> q + 1, d |-> f_test - r]
        ELSE [n |-> q, d |-> r]

\* frs.find_harmonics_from_pattern(f_n, p_orb, f_tol): for every harmonic
\* number the frequency nearest to n / p_orb, if closer than f_tol
PatternHarmonics(F, f_orb, f_tol) ==
    Bind([i \in 1..Len(F) |-> HarmonicOf(F[i], f_orb)], LAMBDA h :
        LET ok(i) == F[i] > 0 /\ h[i].d < f_tol * GridRes
            first(i) == \A j \in 1..Len(F) :
                            (j # i /\ ok(j) /\ h[j].n = h[i].n) =>
                                (h[i].d < h[j].d \/ (h[i].d = h[j].d /\ i < j))
        IN  OrderByValue(F, {i \in 1..Len(F) : ok(i) /\ first(i)}))

\* frs.harmonic_series_length(f_test, f_n, freq_res, f_nyquist): for every
\* test frequency the number of harmonics found, their share of the
\* harmonics below the Nyquist frequency, and their summed distance to the
\* exact harmonics
harmonic_series_length(f_test, F, freq_res, f_nyquist) ==
    Bind([k \in 1..Len(f_test) |->
             Bind(PatternHarmonics(F, f_test[k], freq_res \div 2), LAMBDA h :
                 [n_harm |-> Len(h),
                  below |-> (f_nyquist * GridRes) \div f_test[k],
                  distance |-> SeqSum([j \in 1..Len(h) |-> HarmonicOf(F[h[j]], f_test[k]).d])])],
         LAMBDA found :
    Bind(Elementwise([k \in 1..Len(found) |-> <<found[k].n_harm, found[k].below>>],
                     LAMBDA c : FlDiv(FlOf(c[1]), FlOf(c[2]))), LAMBDA completeness :
        [k \in 1..Len(found) |->
            [n_harm |-> found[k].n_harm, completeness |-> completeness[k],
             distance |-> found[k].distance]]))

\* 1 / p as frs gets it
TestFrequency(p) == ToUnits(FlDiv(FlOf(1), p))

\* the point at index k, counted from 0, of np.arange(start, start + ..., step)
\* with second point next: start + k * delta with delta = next - start
ArangeItem(start, next, k) ==
    IF k = 0 THEN start
    ELSE IF k = 1 THEN next
    ELSE FlAdd(start, FlTimes(FlSub(next, start), k))

\* np.arange(start, stop, step) of doubles: math.ceil((stop - start) / step)
\* points; units holds the points as frs gets them
arange(start, stop, step) ==
    Bind(IF FlLt(start, stop) THEN FlCeil(FlDiv(FlSub(stop, start), step)) ELSE 0, LAMBDA n :
    Bind(FlAdd(start, step), LAMBDA next :
        [start |-> start, next |-> next, n |-> n,
         units |-> [k \in 1..n |-> ToUnits(ArangeItem(start, next, k - 1))]]))

\* a refinement by the distance alone, over the whole grid
RefineByDistance(p_orb, F) ==
    Bind(arange(FlDiv(FlRatio(99, 100), p_orb), FlDiv(FlRatio(101, 100), p_orb),
                FlDiv(FlRatio(1, 100000), p_orb)), LAMBDA f_refine :
    Bind(harmonic_series_length(f_refine.units, F, Rayleigh, FNyquist), LAMBDA hsl :
        IF f_refine.n = 0 THEN ValueError
        ELSE FlDiv(FlOf(1), ArangeItem(f_refine.start, f_refine.next,
                                       ArgMin([k \in 1..f_refine.n |-> hsl[k].distance], f_refine.n) - 1))))

\* lines 1180-1191: refine_orbital_period(p_orb, time, f_n)
refine_orbital_period(p_orb, F) ==
    Bind(arange(FlDiv(FlRatio(99, 100), p_orb), FlDiv(FlRatio(101, 100), p_orb),
                FlDiv(FlRatio(1, 100000), p_orb)), LAMBDA f_refine :
    Bind(harmonic_series_length(f_refine.units, F, Rayleigh, FNyquist), LAMBDA hsl :
    Bind(Elementwise([k \in 1..f_refine.n |-> <<hsl[k].n_harm, hsl[k].completeness>>],
                     LAMBDA c : FlTimes(c[2], c[1])), LAMBDA h_measure :
        IF f_refine.n = 0 THEN ValueError
        ELSE
    Bind(FlDiv(NpMax(h_measure), FlRatio(3, 2)), LAMBDA level :
    Bind(Elementwise(h_measure, LAMBDA h : FlGt(h, level)), LAMBDA mask_peak :
    Bind(SelectSeq([k \in 1..f_refine.n |-> k], LAMBDA k : mask_peak[k]), LAMBDA peak :
        IF peak = <<>> THEN ValueError
        ELSE
    Bind(ArgMin([k \in 1..Len(peak) |-> hsl[peak[k]].distance], Len(peak)), LAMBDA i_min_dist :
        FlDiv(FlOf(1), ArangeItem(f_refine.start, f_refine.next, peak[i_min_dist] - 1)))))))))

\* what the first refinement leaves when it ends in a ValueError
NoRefinement ==
    [raised |-> TRUE, f_refine |-> arange(FlZero, FlZero, FlOf(1)), distance_r |-> <<>>,
     peak |-> <<>>, i_min_dist |-> 0, h_best |-> FlZero, p_orb |-> ValueError]

\* lines 1241-1246: the first refinement of find_orbital_period, with what
\* the later steps use of it: the grid, the distances, the indices of the
\* grid that mask_peak selects, i_min_dist (counted from 1) and the measure
\* h_measure[mask_peak][i_min_dist]
FirstRefinement(p_orb, F) ==
    Bind(arange(FlDiv(FlRatio(99, 100), p_orb), FlDiv(FlRatio(101, 100), p_orb),
                FlDiv(FlRatio(1, 100000), p_orb)), LAMBDA f_refine :
    Bind(harmonic_series_length(f_refine.units, F, Rayleigh, FNyquist), LAMBDA hsl :
    Bind(Elementwise([k \in 1..f_refine.n |-> <<hsl[k].n_harm, hsl[k].completeness>>],
                     LAMBDA c : FlTimes(c[2], c[1])), LAMBDA h_measure :
        IF f_refine.n = 0 THEN NoRefinement
        ELSE
    Bind(FlDiv(NpMax(h_measure), FlRatio(3, 2)), LAMBDA level :
    Bind(Elementwise(h_measure, LAMBDA h : FlGt(h, level)), LAMBDA mask_peak :
    Bind(SelectSeq([k \in 1..f_refine.n |-> k], LAMBDA k : mask_peak[k]), LAMBDA peak :
        IF peak = <<>> THEN NoRefinement
        ELSE
    Bind(ArgMin([k \in 1..Len(peak) |-> hsl[peak[k]].distance], Len(peak)), LAMBDA i_min_dist :
        [raised |-> FALSE, f_refine |-> f_refine,
         distance_r |-> [k \in 1..f_refine.n |-> hsl[k].distance],
         peak |-> peak, i_min_dist |-> i_min_dist,
         h_best |-> h_measure[peak[i_min_dist]],
         p_orb |-> FlDiv(FlOf(1), ArangeItem(f_refine.start, f_refine.next, peak[i_min_dist] - 1))])))))))

\* lines 1249-1262: the interval around the minimum in which the distance
\* stays below half its maximum
BoundInterval(r) ==
    LET n == Len(r.peak)
        d_max == r.distance_r[ArgMax(r.distance_r, Len(r.distance_r))]
        left == {k \in 1..(r.i_min_dist - 1) : 2 * r.distance_r[r.peak[k]] > d_max}
        right == {k \in r.i_min_dist..n : 2 * r.distance_r[r.peak[k]] > d_max}
        f_l_bound == IF left # {} THEN r.peak[CHOOSE k \in left : \A l \in left : l <= k]
                     ELSE r.peak[1]
        f_r_bound == IF right # {} THEN r.peak[CHOOSE k \in right : \A l \in right : k <= l]
                     ELSE r.peak[n]
    IN  FlSub(ArangeItem(r.f_refine.start, r.f_refine.next, f_r_bound - 1), ArangeItem(r.f_refine.start, r.f_refine.next, f_l_bound - 1))

\* line 1270: n_multiply = [1/2, 2, 3, 4, 5], each as <<numerator, denominator>>
Multiples == << <<1, 2>>, <<2, 1>>, <<3, 1>>, <<4, 1>>, <<5, 1>> >>

\* p_orb * n for a multiple n
PeriodTimes(p_orb, n) == IF n[2] = 2 THEN FlHalf(FlTimes(p_orb, n[1])) ELSE FlTimes(p_orb, n[1])

\* 1 / p_multiples as frs gets them
FreqOfMultiples(p_orb, n_multiply) ==
    [k \in 1..Len(n_multiply) |-> TestFrequency(PeriodTimes(p_orb, n_multiply[k]))]

\* lines 1272-1276 and 1280-1285: h_measure of the multiples relative to the
\* one of the refined period
TestFrac(p_orb, F, n_multiply, h_best) ==
    Bind(harmonic_series_length(FreqOfMultiples(p_orb, n_multiply), F, Rayleigh, FNyquist),
         LAMBDA hsl :
        [k \in 1..Len(hsl) |-> FlDiv(FlTimes(hsl[k].completeness, hsl[k].n_harm), h_best)])

\* lines 1270-1282: the multiples that are tested; the double of 3, 4 or 5 is
\* added when its measure is more than 3 times that of the period
MultiplesTested(p_orb, F, h_best) ==
    Bind(TestFrac(p_orb, F, Multiples, h_best), LAMBDA test_frac :
        Bind(SelectSeq(<<3, 4, 5>>, LAMBDA k : FlGt(test_frac[k], FlOf(3))), LAMBDA high :
            Multiples \o [k \in 1..Len(high) |-> <<2 * Multiples[high[k]][1], 1>>]))

\* a choice of the first multiple that passes the completeness threshold
FirstCompleteMultiple(n_multiply, test_frac, compl_frac, compl_frac_2) ==
    LET minimal_frac == FlRatio(11, 10)
        minimal_compl_frac == FlRatio(17, 20)
        minimal_frac_low == FlRatio(19, 20)
        minimal_compl_frac_low == FlRatio(19, 20)
        n == Len(n_multiply)
        complete == SelectSeq([k \in 1..n |-> k], LAMBDA k : FlGt(compl_frac[k], minimal_compl_frac))
    IN  IF \E k \in 1..n : FlGt(test_frac[k], minimal_frac) /\ FlGt(compl_frac[k], minimal_compl_frac)
        THEN n_multiply[complete[1]]
        ELSE IF FlGt(test_frac[2], minimal_frac_low) /\ FlGt(compl_frac_2, minimal_compl_frac_low)
        THEN <<2, 1>>
        ELSE <<1, 1>>

\* lines 1295-1310: the thresholds and the choice among the multiples, given
\* what was measured of them
FavouredMultiple(n_multiply, test_frac, compl_frac, compl_frac_2) ==
    LET minimal_frac == FlRatio(11, 10)
        minimal_compl_frac == FlRatio(17, 20)
        minimal_frac_low == FlRatio(19, 20)
        minimal_compl_frac_low == FlRatio(19, 20)
        n == Len(n_multiply)
        test_condition == [k \in 1..n |-> FlGt(test_frac[k], minimal_frac)]
        compl_condition == [k \in 1..n |-> FlGt(compl_frac[k], minimal_compl_frac)]
        test_condition_2 == FlGt(test_frac[2], minimal_frac_low)
        compl_condition_2 == FlGt(compl_frac_2, minimal_compl_frac_low)
        complete == SelectSeq([k \in 1..n |-> k], LAMBDA k : compl_condition[k])
        i_best == NpArgMax([k \in 1..Len(complete) |-> test_frac[complete[k]]])
    IN  IF \E k \in 1..n : test_condition[k] /\ compl_condition[k]
        THEN n_multiply[complete[i_best]]
        ELSE IF test_condition_2 /\ compl_condition_2 THEN <<2, 1>>
        ELSE <<1, 1>>

\* what is measured of the multiples
NoMeasures == [n_multiply |-> <<>>, test_frac |-> <<>>, compl_frac |-> <<>>, compl_frac_2 |-> FlZero]

\* lines 1265-1292: the multiples that are tested and their diagnostic
\* fractions; nothing for the ValueError of np.max on an empty array
MultipleMeasures(p_orb, F, h_best) ==
    Bind(MultiplesTested(p_orb, F, h_best), LAMBDA n_multiply :
    Bind(FreqOfMultiples(p_orb, n_multiply), LAMBDA f_multiples :
    Bind(TestFrequency(p_orb), LAMBDA f_orb :
    Bind(PatternHarmonics(F, f_orb, Rayleigh \div 2), LAMBDA harmonics :
    Bind(SelectSeq(harmonics, LAMBDA h : HarmonicOf(F[h], f_orb).n <= 15), LAMBDA low :
        IF Len(low) = 0 THEN NoMeasures
        ELSE
    Bind(FlFloorDiv(FlRatio(FNyquist, 1000), FlDiv(FlOf(1), p_orb)), LAMBDA below :
    Bind(harmonic_series_length(f_multiples, F, Rayleigh, FNyquist), LAMBDA hsl_m :
    Bind(SelectSeq(F, LAMBDA f : f <= F[low[Len(low)]]), LAMBDA f_n_c :
    Bind(harmonic_series_length(f_multiples, f_n_c, Rayleigh, FNyquist), LAMBDA hsl_2 :
        [n_multiply |-> n_multiply,
         test_frac |-> [k \in 1..Len(n_multiply) |->
                         FlDiv(FlTimes(hsl_m[k].completeness, hsl_m[k].n_harm), h_best)],
         compl_frac |-> [k \in 1..Len(n_multiply) |->
                          FlDiv(hsl_m[k].completeness, FlDiv(FlOf(Len(harmonics)), FlOf(below)))],
         compl_frac_2 |-> FlDiv(hsl_2[2].completeness,
                                FlDiv(FlOf(Len(low)), FlOf(below)))])))))))))

\* lines 1265-1310: the multiple of the period that is favoured; <<1, 1>>
\* when none is, <<0, 0>> for the ValueError of np.max on an empty array
ChooseMultiple(p_orb, F, h_best) ==
    Bind(MultipleMeasures(p_orb, F, h_best), LAMBDA ms :
        IF ms = NoMeasures THEN <<0, 0>>
        ELSE FavouredMultiple(ms.n_multiply, ms.test_frac, ms.compl_frac, ms.compl_frac_2))

\* lines 1313-1317: np.arange(f_left_b, f_right_b, 0.00001 / p_orb)
SecondGrid(p_orb, bound_interval) ==
    Bind(FlDiv(FlOf(1), p_orb), LAMBDA f_orb :
        arange(FlSub(f_orb, FlHalf(bound_interval)), FlAdd(f_orb, FlHalf(bound_interval)),
               FlDiv(FlRatio(1, 100000), p_orb)))

\* lines 1313-1322: the refinement around the chosen multiple
SecondRefinement(p_orb, F, bound_interval) ==
    Bind(SecondGrid(p_orb, bound_interval), LAMBDA f_refine_2 :
    Bind(harmonic_series_length(f_refine_2.units, F, Rayleigh, FNyquist), LAMBDA hsl :
    Bind(Elementwise([k \in 1..f_refine_2.n |-> <<hsl[k].n_harm, hsl[k].completeness>>],
                     LAMBDA c : FlTimes(c[2], c[1])), LAMBDA h_measure_2 :
        IF f_refine_2.n = 0 THEN ValueError
        ELSE
    Bind(FlDiv(NpMax(h_measure_2), FlRatio(3, 2)), LAMBDA level :
    Bind(Elementwise(h_measure_2, LAMBDA h : FlGt(h, level)), LAMBDA mask_peak :
    Bind(SelectSeq([k \in 1..f_refine_2.n |-> k], LAMBDA k : mask_peak[k]), LAMBDA peak :
        IF peak = <<>> THEN ValueError
        ELSE
    Bind(ArgMin([k \in 1..Len(peak) |-> hsl[peak[k]].distance], Len(peak)), LAMBDA i_min_dist :
        FlDiv(FlOf(1), ArangeItem(f_refine_2.start, f_refine_2.next, peak[i_min_dist] - 1)))))))))

\* what a Python call hands back: a float or a tuple of floats
ReturnFloat(x) == [type |-> "float", items |-> <<x>>]
ReturnTuple(x, y) == [type |-> "tuple", items |-> <<x, y>>]

\* lines 1234-1238: the test period with the highest combined measure
CoarsePeriod(periods, psi_measure, F) ==
    Bind(harmonic_series_length([k \in 1..Len(periods) |-> TestFrequency(periods[k])], F,
                                Rayleigh, FNyquist), LAMBDA hsl :
        Bind([k \in 1..Len(periods) |->
                 FlTimes(hsl[k].completeness, psi_measure[k] * hsl[k].n_harm)],
             LAMBDA psi_h_measure :
            IF Len(periods) = 0 THEN ValueError ELSE periods[NpArgMax(psi_h_measure)]))

\* lines 1225-1238: the coarse period; np.argmax of line 1238 raises
\* ValueError where there is no test period
FoCoarse ==
    /\ pc = "fo_entry"
    /\ \E p \in {CoarsePeriod(data.periods, data.psi_measure, data.f_n)} :
           /\ fo' = [fo EXCEPT !.p_coarse = p]
           /\ pc' = IF p = ValueError THEN "fo_raised" ELSE "fo_refine"
    /\ UNCHANGED <<data, sin, lin, top, par, ex, rf, rp, hist, xin, xout, rs, rg, fh,
                   store, files, gui, later>>

\* lines 1241-1262: first refinement and the bounds of the second one
FoRefine ==
    /\ pc = "fo_refine"
    /\ \E r \in {FirstRefinement(fo.p_coarse, data.f_n)} :
           IF r.raised
           THEN /\ pc' = "fo_raised"
                /\ fo' = [fo EXCEPT !.p_refined = r.p_orb, !.p_orb = r.p_orb]
           ELSE /\ pc' = "fo_multiple"
                /\ fo' = [fo EXCEPT !.p_refined = r.p_orb, !.p_orb = r.p_orb,
                                    !.h_refined = r.h_best,
                                    !.bound_interval = BoundInterval(r)]
    /\ UNCHANGED <<data, sin, lin, top, par, ex, rf, rp, hist, xin, xout, rs, rg, fh,
                   store, files, gui, later>>

\* lines 1265-1322: the multiple of the period and the refinement around it
FoMultiple ==
    /\ pc = "fo_multiple"
    /\ \E ms \in {MultipleMeasures(fo.p_refined, data.f_n, fo.h_refined)} :
       \E n \in {ChooseMultiple(fo.p_refined, data.f_n, fo.h_refined)} :
       \E p_new \in {IF n = <<1, 1>> \/ n = <<0, 0>> THEN fo.p_refined
                     ELSE SecondRefinement(PeriodTimes(fo.p_refined, n), data.f_n,
                                           fo.bound_interval)} :
           /\ pc' = IF n = <<0, 0>> \/ p_new = ValueError THEN "fo_raised" ELSE "fo_return"
           /\ fo' = [fo EXCEPT !.multiple = n, !.n_multiply = ms.n_multiply, !.measures = ms,
                               !.p_orb = IF n = <<0, 0>> THEN ValueError ELSE p_new]
    /\ UNCHANGED <<data, sin, lin, top, par, ex, rf, rp, hist, xin, xout, rs, rg, fh,
                   store, files, gui, later>>

\* line 1324: return p_orb
FoReturn ==
    /\ pc = "fo_return"
    /\ fo' = [fo EXCEPT !.ret = ReturnFloat(fo.p_orb)]
    /\ pc' = "fo_done"
    /\ UNCHANGED <<data, sin, lin, top, par, ex, rf, rp, hist, xin, xout, rs, rg, fh,
                   store, files, gui, later>>

\* refine_orbital_period(p_orb, time, f_n) called on its own
CallRefineOrbitalPeriod ==
    /\ pc = "ro_entry"
    /\ \E p \in {refine_orbital_period(fo.p_coarse, data.f_n)} :
           /\ fo' = [fo EXCEPT !.p_refined = p, !.p_orb = p,
                               !.ret = IF p = ValueError THEN fo.ret ELSE ReturnFloat(p)]
           /\ pc' = IF p = ValueError THEN "ro_raised" ELSE "ro_done"
    /\ UNCHANGED <<data, sin, lin, top, par, ex, rf, rp, hist, xin, xout, rs, rg, fh,
                   store, files, gui, later>>

NextOrbit == FoCoarse \/ FoRefine \/ FoMultiple \/ FoReturn \/ CallRefineOrbitalPeriod

\* the time series model is not in use
IdleCore(d) ==
    /\ data = d
    /\ sin = <<>> /\ lin = [const |-> 0, slope |-> 0]
    /\ par = IdlePar /\ ex = IdleEx /\ rf = IdleRf /\ rp = IdleRp /\ hist = IdleHist
    /\ xin = IdleXin /\ xout = IdleXout
    /\ rs = IdleRs /\ rg = IdleRg /\ fh = IdleFh

\* frequency lists: a full harmonic series, one with the odd harmonics of the
\* double period, one whose base is itself a harmonic, harmonics that are off
\* their exact places, sinusoids that are no harmonics, a series with a
\* harmonic above the 15th whose low part is filled by the double period, a
\* single one, a single one above the Nyquist frequency, one whose double
\* lies above the Nyquist frequency, alone (a measure that is not a number)
\* and next to another (an infinite measure), a series in which the rounding
\* of the doubles decides whether a measure is above 3 times another, and no
\* sinusoid at all, for which there is no test period
OrbitFrequencies ==
    { <<2500, 5000, 7500, 10000, 12500, 15000, 17500, 20000>>,
      <<2500, 5000, 7500, 10000, 1250, 3750, 6250>>,
      <<5000, 10000, 15000, 20000, 2500>>,
      <<2500, 5000, 13150>>,
      <<2510, 4990, 7525, 3300, 4100>>,
      <<5020, 2500, 7480, 13150, 9990>>,
      <<625, 1250, 20000>>,
      <<3037>>,
      <<20600>>,
      <<10400>>,
      <<10300, 20000>>,
      <<1000, 2000, 3100>>,
      <<>> }

\* pdg.phase_dispersion_minimisation(time, flux, f_n, local=False): the test
\* periods, here the doubles of 1 / f and 2 / f for every frequency
PdmPeriods(F) ==
    [k \in 1..(2 * Len(F)) |-> IF k % 2 = 1 THEN FlRatio(1000, F[(k + 1) \div 2])
                               ELSE FlRatio(2000, F[k \div 2])]

\* ampls / phase_disp of the test periods: flat, or with one period standing out
PsiMeasures(n) ==
    {[k \in 1..n |-> 1]} \cup {[k \in 1..n |-> IF k = j THEN 5 ELSE 1] : j \in 1..n}

InitOrbit ==
    \E F \in OrbitFrequencies, r \in {"find_orbital", "refine_orbital"} :
        \E psi \in PsiMeasures(2 * Len(F)),
           p \in IF r = "find_orbital" THEN {FlZero} ELSE Range(PdmPeriods(F)) :
            /\ IdleCore([truth |-> <<>>, knee |-> 0, fitoff |-> 0, f_n |-> F,
                         periods |-> PdmPeriods(F),
                         psi_measure |-> IF r = "find_orbital" THEN psi ELSE <<>>])
            /\ top = r
            /\ pc = IF r = "find_orbital" THEN "fo_entry" ELSE "ro_entry"
            /\ fo = IF r = "find_orbital" THEN IdleFo ELSE [IdleFo EXCEPT !.p_coarse = p]
            /\ store = IdleStore /\ files = IdleFiles /\ gui = IdleGui /\ IdleLater

SpecOrbit == InitOrbit /\ [][NextOrbit]_vars

(***************************************************************************)
(* Result.save_conditional, Result.load_conditional and Result.load on one *)
(* file name                                                               *)
(***************************************************************************)
\* the results an instance can hold; "empty" is a new Result()
Results == {"first", "second", "third"}

\* a write whatever is on disk
WritesAlways(is_file, overwrite) == TRUE

\* lines 265 and 314: (not os.path.isfile(file_name)) | config.overwrite
NoFileOrOverwrite(is_file, overwrite) == ~is_file \/ overwrite

\* io.save_result_hdf5(file_name, result_dict) and io.load_result_hdf5(file_name)
SaveHdf5(r) == [exists |-> TRUE, hdf5 |-> r]
LoadHdf5(f) == f.hdf5

\* os.path.isfile(file_name)
IsFile(f) == f.exists

\* lines 229-245: Result.load
ResultLoad(f) == IF ~IsFile(f) THEN "empty" ELSE LoadHdf5(f)

\* lines 306-321: save_conditional of an instance that holds r
SaveConditional ==
    /\ pc = "store"
    /\ \E r \in Results :
         LET write == NoFileOrOverwrite(IsFile(store.file), store.overwrite)
         IN  store' = [store EXCEPT
                         !.file = IF write THEN SaveHdf5(r) ELSE @,
                         !.csv = IF write /\ store.save_ascii THEN r ELSE @,
                         !.last = "save_conditional", !.arg = r, !.before = store.file,
                         !.loaded = "none"]
    /\ UNCHANGED <<data, sin, lin, pc, top, par, ex, rf, rp, hist, xin, xout, rs, rg, fh,
                   fo, files, gui, later>>

\* lines 274-288: save of an instance that holds r, called on its own: the
\* file is written whatever is on disk
Save ==
    /\ pc = "store"
    /\ \E r \in Results :
         store' = [store EXCEPT !.file = SaveHdf5(r), !.last = "save", !.arg = r,
                                !.before = store.file, !.loaded = "none"]
    /\ UNCHANGED <<data, sin, lin, pc, top, par, ex, rf, rp, hist, xin, xout, rs, rg, fh,
                   fo, files, gui, later>>

\* lines 290-304: save_as_csv of an instance that holds r, called on its own
SaveAsCsv ==
    /\ pc = "store"
    /\ \E r \in Results :
         store' = [store EXCEPT !.csv = r, !.last = "save_as_csv", !.arg = r,
                                !.before = store.file, !.loaded = "none"]
    /\ UNCHANGED <<data, sin, lin, pc, top, par, ex, rf, rp, hist, xin, xout, rs, rg, fh,
                   fo, files, gui, later>>

\* lines 248-272: load_conditional
LoadConditional ==
    /\ pc = "store"
    /\ store' = [store EXCEPT
                   !.loaded = IF NoFileOrOverwrite(IsFile(store.file), store.overwrite)
                              THEN "empty" ELSE ResultLoad(store.file),
                   !.last = "load_conditional", !.arg = "none", !.before = store.file]
    /\ UNCHANGED <<data, sin, lin, pc, top, par, ex, rf, rp, hist, xin, xout, rs, rg, fh,
                   fo, files, gui, later>>

\* lines 210-245: load
Load ==
    /\ pc = "store"
    /\ store' = [store EXCEPT !.loaded = ResultLoad(store.file),
                              !.last = "load", !.arg = "none", !.before = store.file]
    /\ UNCHANGED <<data, sin, lin, pc, top, par, ex, rf, rp, hist, xin, xout, rs, rg, fh,
                   fo, files, gui, later>>

\* the user changes config.overwrite between two calls
SetOverwrite ==
    /\ pc = "store"
    /\ store' = [store EXCEPT !.overwrite = ~@, !.last = "config", !.arg = "none",
                              !.before = store.file, !.loaded = "none"]
    /\ UNCHANGED <<data, sin, lin, pc, top, par, ex, rf, rp, hist, xin, xout, rs, rg, fh,
                   fo, files, gui, later>>

NextStore == SaveConditional \/ Save \/ SaveAsCsv \/ LoadConditional \/ Load \/ SetOverwrite

InitStore ==
    \E f \in {"none", "first", "second"}, o \in BOOLEAN, a \in BOOLEAN :
        /\ IdleCore([truth |-> <<>>, knee |-> 0, fitoff |-> 0])
        /\ top = "result" /\ pc = "store"
        /\ store = [IdleStore EXCEPT !.file = IF f = "none" THEN NoFile ELSE SaveHdf5(f),
                                     !.overwrite = o, !.save_ascii = a]
        /\ fo = IdleFo /\ files = IdleFiles /\ gui = IdleGui /\ IdleLater

SpecStore == InitStore /\ [][NextStore]_vars

(***************************************************************************)
(* Data.load_data and Data._check_file_existence (api/data.py)             *)
(***************************************************************************)
FileNames == <<"a.dat", "b.dat", "c.dat", "d.dat">>

\* lines 129-130: for i in missing, the k-th index that is deleted
InOrder(missing, k) == missing[k]

\* lines 110-113: the indices (from 0) of the files that do not exist
MissingIndices(file_list, on_disk) ==
    LET at == SelectSeq([k \in 1..Len(file_list) |-> k], LAMBDA k : file_list[k] \notin on_disk)
    IN  [k \in 1..Len(at) |-> at[k] - 1]

\* del file_list[i], i counted from 0
DelItem(file_list, i) ==
    [k \in 1..(Len(file_list) - 1) |-> IF k <= i THEN file_list[k] ELSE file_list[k + 1]]

\* the files of a list that exist, in their order
Existing(file_list, on_disk) == SelectSeq(file_list, LAMBDA f : f \in on_disk)

\* load_data lines 175-188: set the list, return on an empty one, else check
LoadData ==
    /\ pc = "ld_entry"
    /\ files' = [files EXCEPT !.file_list = files.given]
    /\ pc' = IF Len(files.given) = 0 THEN "ld_empty" ELSE "cf_scan"
    /\ UNCHANGED <<data, sin, lin, top, par, ex, rf, rp, hist, xin, xout, rs, rg, fh,
                   fo, store, gui, later>>

\* _check_file_existence lines 109-113: collect the missing indices
CfScan ==
    /\ pc = "cf_scan"
    /\ files' = [files EXCEPT !.missing = MissingIndices(files.file_list, files.on_disk),
                              !.k = 1]
    /\ pc' = IF Len(MissingIndices(files.file_list, files.on_disk)) > 0 THEN "cf_delete"
             ELSE "cf_done"
    /\ UNCHANGED <<data, sin, lin, top, par, ex, rf, rp, hist, xin, xout, rs, rg, fh,
                   fo, store, gui, later>>

\* lines 129-130: one round of `for i in missing: del self.file_list[i]`
CfDelete ==
    /\ pc = "cf_delete"
    /\ IF files.k > Len(files.missing)
       THEN /\ pc' = "cf_done"
            /\ files' = files
       ELSE LET i == InOrder(files.missing, files.k)
            IN  IF i >= Len(files.file_list)
                THEN /\ pc' = "cf_raised"
                     /\ files' = [files EXCEPT !.error = "IndexError"]
                ELSE /\ pc' = "cf_delete"
                     /\ files' = [files EXCEPT !.file_list = DelItem(files.file_list, i),
                                               !.k = @ + 1]
    /\ UNCHANGED <<data, sin, lin, top, par, ex, rf, rp, hist, xin, xout, rs, rg, fh,
                   fo, store, gui, later>>

NextFiles == LoadData \/ CfScan \/ CfDelete

\* a file list of up to four files, any of which may be missing
InitFiles ==
    \E n \in 0..Len(FileNames), disk \in SUBSET Range(FileNames) :
        /\ IdleCore([truth |-> <<>>, knee |-> 0, fitoff |-> 0])
        /\ top = "load_data" /\ pc = "ld_entry"
        /\ files = [IdleFiles EXCEPT !.given = SubSeq(FileNames, 1, n), !.on_disk = disk]
        /\ fo = IdleFo /\ store = IdleStore /\ gui = IdleGui /\ IdleLater

SpecFiles == InitFiles /\ [][NextFiles]_vars

(***************************************************************************)
(* MainWindow (gui/gui_app.py): new_dataset and the handlers of the menu,  *)
(* of the button and of the periodogram.  self.pipeline and                *)
(* self.pipeline_thread are assigned in new_dataset alone (lines 408 and   *)
(* 411).  load_data_external and load_data call it at lines 444 and 462,   *)
(* after the calls of Data.load_data and Data.load that raise TypeError;   *)
(* as a public method it is also called on its own, with a Data instance.  *)
(* An exception that a handler raises ends the handler, not the window:    *)
(* gui.error names it and gui.line is the line of gui_app.py that it       *)
(* passes last.  The text field holds the lines that the handlers append   *)
(* and the lines that self.logger hands to append_text (lines 66 and 405). *)
(* Pipeline and PipelineThread are not part of src/: a pipeline is known   *)
(* by its number, by whether its data holds files and by the origin of its *)
(* result, and a thread by the number of its pipeline.                     *)
(***************************************************************************)
\* what a handler that returns leaves behind: its name and no exception
Handled(g, name) == [g EXCEPT !.last = name, !.error = "none", !.line = 0]

\* what a handler that ends in an exception leaves behind
Raised(g, name, exception, line) == [g EXCEPT !.last = name, !.error = exception, !.line = line]

\* lines 295-309: append_text
append_text(g, text) == [g EXCEPT !.text_field = Append(@, text)]

GuiFrame ==
    UNCHANGED <<data, sin, lin, pc, top, par, ex, rf, rp, hist, xin, xout, rs, rg, fh,
                fo, store, files, later>>

\* whether the user chose a file in a dialog or closed it
DialogOutcomes == {"chosen", "cancelled"}

\* lines 419-428: set_save_location; a directory that was chosen is kept
\* and reported in the text field
Directories == {"results", "archive"}

SetSaveLocation ==
    /\ pc = "gui"
    /\ \E outcome \in DialogOutcomes, new_dir \in Directories :
         IF outcome = "cancelled"
         THEN gui' = Handled(gui, "set_save_location")
         ELSE /\ Len(gui.text_field) <= MaxLog
              /\ gui' = append_text([Handled(gui, "set_save_location") EXCEPT
                                       !.save_dir = new_dir],
                                    IF new_dir = "results" THEN "Save location set to: results"
                                    ELSE "Save location set to: archive")
    /\ GuiFrame

\* lines 394-417: new_dataset(data) with None, with Data(target_id='star'),
\* whose file list is empty, or with an instance of the target 'star' made
\* of files.  data.target_id of None raises AttributeError at line 397.
\* Else save_subdir is set (397); os.mkdir (401) raises FileNotFoundError
\* where save_dir is no directory, which the directory of the configuration
\* may be and a directory chosen in the dialog is not; else the pipeline
\* and its thread are made (408, 411) and update_plots (415) ends in the
\* AttributeError of line 351.  A thread that runs is left running.
NewDataset ==
    /\ pc = "gui"
    /\ \E d \in {"None", "no_files", "files"},
          is_dir \in IF gui.save_dir \in Directories THEN {TRUE} ELSE BOOLEAN :
         IF d = "None"
         THEN gui' = Raised(gui, "new_dataset", "AttributeError", 397)
         ELSE IF ~is_dir
         THEN gui' = [Raised(gui, "new_dataset", "FileNotFoundError", 401) EXCEPT
                        !.save_subdir = "star_analysis"]
         ELSE /\ gui.made < MaxPipelines
              /\ gui' = [Raised(gui, "new_dataset", "AttributeError", 351) EXCEPT
                           !.save_subdir = "star_analysis",
                           !.pipeline = gui.made + 1, !.pipeline_thread = gui.made + 1,
                           !.made = @ + 1,
                           !.has_files = [@ EXCEPT ![gui.made + 1] = (d = "files")],
                           !.result = [@ EXCEPT ![gui.made + 1] = "empty"]]
    /\ GuiFrame

\* lines 430-446: load_data_external; without a file it returns, with files
\* chosen it calls Data.load_data with the keyword logger, which
\* api/data.py line 153 does not take: TypeError, new_dataset is not reached
LoadDataExternal ==
    /\ pc = "gui"
    /\ \E outcome \in DialogOutcomes :
         gui' = IF outcome = "cancelled" THEN Handled(gui, "load_data_external")
                ELSE Raised(gui, "load_data_external", "TypeError", 441)
    /\ GuiFrame

\* lines 448-464: load_data; without a file it returns, with a file chosen
\* it calls Data.load with the keywords data_dir and logger, which
\* api/data.py line 226 does not take: TypeError, new_dataset is not reached
LoadDataObject ==
    /\ pc = "gui"
    /\ \E outcome \in DialogOutcomes :
         gui' = IF outcome = "cancelled" THEN Handled(gui, "load_data")
                ELSE Raised(gui, "load_data", "TypeError", 459)
    /\ GuiFrame

\* lines 466-478: save_data; the suggested path of line 468 reads
\* self.pipeline.data, AttributeError for the pipeline that is None and
\* before the dialog opens.  With a pipeline and a file chosen Data.save
\* (line 476) writes the file, or raises the TypeError of api/data.py line
\* 314 for data that holds files
SaveData ==
    /\ pc = "gui"
    /\ \E outcome \in DialogOutcomes :
         gui' = IF gui.pipeline = NoPipeline
                THEN Raised(gui, "save_data", "AttributeError", 468)
                ELSE IF outcome = "chosen" /\ gui.has_files[gui.pipeline]
                THEN Raised(gui, "save_data", "TypeError", 476)
                ELSE Handled(gui, "save_data")
    /\ GuiFrame

\* lines 498-510: save_result; line 500 reads self.pipeline.data,
\* AttributeError for the pipeline that is None and before the dialog
\* opens.  With a pipeline and a file chosen Result.save (line 508) writes
\* the file
SaveResult ==
    /\ pc = "gui"
    /\ gui' = IF gui.pipeline = NoPipeline
              THEN Raised(gui, "save_result", "AttributeError", 500)
              ELSE Handled(gui, "save_result")
    /\ GuiFrame

\* lines 480-496: load_result; without a path it returns.  Line 491 calls
\* Result.load first: for a path that is no file it hands back an empty
\* instance (api/result.py lines 229-231), for a file it fills the instance
\* and logs one line (lines 234-243), which the logger hands to
\* append_text.  The assignment to self.pipeline.result then raises
\* AttributeError for the pipeline that is None; with a pipeline the result
\* is replaced and update_plots (494) ends in the AttributeError of line 351
LoadResult ==
    /\ pc = "gui"
    /\ \E file_path \in {"", "no_file", "file"} :
         LET logged == IF file_path = "file"
                       THEN append_text(gui, "Loaded result file with target identifier: star")
                       ELSE gui
         IN  IF file_path = ""
             THEN gui' = Handled(gui, "load_result")
             ELSE /\ file_path = "file" => Len(gui.text_field) <= MaxLog
                  /\ gui' = IF gui.pipeline = NoPipeline
                            THEN Raised(logged, "load_result", "AttributeError", 491)
                            ELSE [Raised(logged, "load_result", "AttributeError", 351) EXCEPT
                                    !.result = [@ EXCEPT ![gui.pipeline] =
                                                  IF file_path = "file" THEN "loaded"
                                                  ELSE "empty"]]
    /\ GuiFrame

\* lines 341-351: update_plots, the handler of View > Show residual; line
\* 348 reads self.pipeline.data of the pipeline that is None, and line 351
\* calls data.periodogram(), which Data (api/data.py) does not have
UpdatePlots ==
    /\ pc = "gui"
    /\ gui' = Raised(gui, "update_plots", "AttributeError",
                     IF gui.pipeline = NoPipeline THEN 348 ELSE 351)
    /\ GuiFrame

\* lines 522-532: perform_analysis; line 525 reads self.pipeline.data,
\* AttributeError for the pipeline that is None.  For data without files
\* the input error is logged, which the logger hands to append_text; else
\* the thread is started (530), and QThread.start() of a thread that runs
\* does nothing
PerformAnalysis ==
    /\ pc = "gui"
    /\ IF gui.pipeline = NoPipeline
       THEN gui' = Raised(gui, "perform_analysis", "AttributeError", 525)
       ELSE IF ~gui.has_files[gui.pipeline]
       THEN /\ Len(gui.text_field) <= MaxLog
            /\ gui' = append_text(Handled(gui, "perform_analysis"),
                                  "Input Error: please provide data files.")
       ELSE gui' = [Handled(gui, "perform_analysis") EXCEPT
                      !.running = @ \cup {gui.pipeline_thread}]
    /\ GuiFrame

\* where the user clicks on the periodogram
ClickPositions == {1, 2}

\* lines 534-549: click_periodogram(x, y, button) with the left (1) or right
\* (3) button; for the pipeline that is None the click is reported in the
\* text field, else pipeline_thread.extract_approx(x) or remove_approx(x)
\* is called in the thread of the window and acts on the result of the
\* pipeline
ClickPeriodogram ==
    /\ pc = "gui"
    /\ \E x \in ClickPositions, button \in {1, 3} :
         IF gui.pipeline = NoPipeline
         THEN /\ Len(gui.text_field) <= MaxLog
              /\ gui' = append_text(Handled(gui, "click_periodogram"),
                                    IF x = 1 THEN "Plot clicked at coordinates: (1, 0)"
                                    ELSE "Plot clicked at coordinates: (2, 0)")
         ELSE gui' = [Handled(gui, "click_periodogram") EXCEPT
                        !.result = [@ EXCEPT ![gui.pipeline] =
                                      IF button = 1 THEN "extracted" ELSE "removed"]]
    /\ GuiFrame

\* PipelineThread.run of a thread that was started returns: the result of
\* its pipeline is that of the analysis and result_signal is emitted, which
\* line 412 connects to handle_result_signal (lines 512-520): update_table
\* fills the table and update_plots ends in the AttributeError of line 351
ThreadFinish ==
    /\ pc = "gui"
    /\ \E t \in gui.running :
         gui' = [Raised(gui, "handle_result_signal", "AttributeError", 351) EXCEPT
                   !.running = @ \ {t},
                   !.result = [@ EXCEPT ![t] = "analysed"]]
    /\ GuiFrame

NextGui ==
    \/ SetSaveLocation \/ NewDataset \/ LoadDataExternal \/ LoadDataObject \/ SaveData
    \/ SaveResult \/ LoadResult \/ UpdatePlots \/ PerformAnalysis \/ ClickPeriodogram
    \/ ThreadFinish

\* lines 64-75: the window after __init__
InitGui ==
    /\ IdleCore([truth |-> <<>>, knee |-> 0, fitoff |-> 0])
    /\ top = "gui" /\ pc = "gui"
    /\ gui = IdleGui /\ IdleLater
    /\ fo = IdleFo /\ store = IdleStore /\ files = IdleFiles

SpecGui == InitGui /\ [][NextGui]_vars

(***************************************************************************)
(* extract_harmonics (core/analysis.py lines 531-601).  The sinusoids of   *)
(* this routine carry the harmonic bookkeeping of ts_model.sinusoid:       *)
(* h_base, the index of the base sinusoid (NoBase for a free sinusoid),    *)
(* and harmonic_n, the multiple of the base frequency.                     *)
(***************************************************************************)
NoBase == 0

Harmonic(f_base, n, a, i_base) ==
    [f |-> n * f_base, a |-> a, ph |-> 0, harm |-> TRUE, incl |-> TRUE,
     h_base |-> i_base, harmonic_n |-> n]

Free(f, a, ph) ==
    [f |-> f, a |-> a, ph |-> ph, harm |-> FALSE, incl |-> TRUE,
     h_base |-> NoBase, harmonic_n |-> 0]

\* line 560: np.unique(h_base[harmonics]), in ascending order
HarmonicBases(S) ==
    LET bases == {S[i].h_base : i \in {j \in Indices(S) : S[j].harm}}
    IN  SelectSeq([k \in 1..Len(S) |-> k], LAMBDA k : k \in bases)

\* line 562: np.arange(1, pd_fn / f_base, dtype=int) holds ceil(pd_fn / f_base - 1)
\* numbers, counted from 1
HarmonicRange(pd_fn, f_base) ==
    [k \in 1..Max(0, (pd_fn + f_base - 1) \div f_base - 1) |-> k]

\* line 565: the positions (from 0) handed to np.delete
PresentPositions(S, i_base) ==
    {S[i].harmonic_n - 1 : i \in {j \in Indices(S) : S[j].h_base = i_base}}

\* np.delete raises IndexError for a position outside of the array
DeleteRaises(arr, obj) == \E p \in obj : p >= Len(arr) \/ p < 0 - Len(arr)

\* np.delete(arr, obj): the array without the positions obj (a negative
\* position counts from the end)
NpDelete(arr, obj) ==
    LET at == obj \cup {p + Len(arr) : p \in {q \in obj : q < 0}}
        keep == SelectSeq([k \in 1..Len(arr) |-> k], LAMBDA k : (k - 1) \notin at)
    IN  [j \in 1..Len(keep) |-> arr[keep[j]]]

\* lines 562-565 for one base
MissingHarmonics(S, pd_fn, i_base) ==
    NpDelete(HarmonicRange(pd_fn, S[i_base].f), PresentPositions(S, i_base))

\* lines 558-567: the candidate multiples paired with their base frequency
RECURSIVE CandidatesFrom(_, _, _, _)
CandidatesFrom(S, pd_fn, bases, k) ==
    IF k > Len(bases) THEN <<>>
    ELSE LET harmonics_i == MissingHarmonics(S, pd_fn, bases[k])
         IN  [j \in 1..Len(harmonics_i) |-> [n |-> harmonics_i[j], f_base |-> S[bases[k]].f]]
               \o CandidatesFrom(S, pd_fn, bases, k + 1)

CandidatesRaise(S, pd_fn) ==
    \E k \in 1..Len(HarmonicBases(S)) :
        DeleteRaises(HarmonicRange(pd_fn, S[HarmonicBases(S)[k]].f),
                     PresentPositions(S, HarmonicBases(S)[k]))

\* lines 558-574: the candidate lists and the initial BIC
XhEntry ==
    /\ pc = "xh_entry"
    /\ IF CandidatesRaise(sin, PdFn)
       THEN /\ pc' = "xh_raised"
            /\ xh' = [xh EXCEPT !.error = "IndexError"]
       ELSE /\ pc' = "xh_loop"
            /\ xh' = [xh EXCEPT !.candidates = CandidatesFrom(sin, PdFn, HarmonicBases(sin), 1),
                                !.i = 0,
                                !.bic_prev = Bic(data.truth, sin, lin),
                                !.entry = sin]
    /\ UNCHANGED <<data, sin, lin, top, par, ex, rf, rp, hist, xin, xout, rs, rg, fh,
                   fo, store, files, gui, result, nyq, inst>>

\* lines 577-584: candidate i is added and the trend is determined again
XhTrial ==
    /\ pc = "xh_loop"
    /\ xh.i < Len(xh.candidates)
    /\ LET c == xh.candidates[xh.i + 1]
           f_i == c.n * c.f_base
           a_i == AmplAt(Residual(data.truth, sin), f_i)
           ph_i == PhaseAt(Residual(data.truth, sin), f_i)
           added == AddSinusoids(sin, <<Free(f_i, a_i, ph_i)>>)
       IN  /\ sin' = added
           /\ lin' = LinearPars(data.truth, added)
           /\ xh' = [xh EXCEPT !.before = sin]
    /\ pc' = "xh_judge"
    /\ UNCHANGED <<data, top, par, ex, rf, rp, hist, xin, xout, rs, rg, fh,
                   fo, store, files, gui, result, nyq, inst>>

\* lines 586-600: the candidate is kept or removed again
XhJudge ==
    /\ pc = "xh_judge"
    /\ LET bic == Bic(data.truth, sin, lin)
           d_bic == <<xh.bic_prev, bic>>
           removed == RemoveSinusoids(sin, {Len(sin)})
       IN  IF AcceptBic(xh.bic_prev, bic, xh.bic_thr)
           THEN /\ xh' = [xh EXCEPT !.bic_prev = bic, !.i = @ + 1, !.d_bic = d_bic,
                                    !.last = "accept"]
                /\ UNCHANGED <<sin, lin>>
           ELSE /\ sin' = removed
                /\ lin' = LinearPars(data.truth, removed)
                /\ xh' = [xh EXCEPT !.i = @ + 1, !.d_bic = d_bic, !.last = "reject"]
    /\ pc' = "xh_loop"
    /\ UNCHANGED <<data, top, par, ex, rf, rp, hist, xin, xout, rs, rg, fh,
                   fo, store, files, gui, result, nyq, inst>>

\* line 601: all candidates were tried
XhReturn ==
    /\ pc = "xh_loop"
    /\ xh.i = Len(xh.candidates)
    /\ pc' = "xh_done"
    /\ UNCHANGED <<data, sin, lin, top, par, ex, rf, rp, hist, xin, xout, rs, rg, fh,
                   fo, store, files, gui, xh, result, nyq, inst>>

NextExtractHarmonics == XhEntry \/ XhTrial \/ XhJudge \/ XhReturn

\* models with one or two harmonic series, with and without free sinusoids,
\* complete and incomplete, and with a harmonic at or above pd_fn; the time
\* series holds harmonics that are strong, near the threshold, weak or absent
HarmonicModels ==
    { [truth |-> <<Line(1000, 60), Line(3000, 60), Line(2000, 60), Line(4000, 53)>>,
       m |-> <<Harmonic(1000, 1, 60, 1), Harmonic(1000, 3, 60, 1)>>],
      [truth |-> <<Line(500, 30), Line(1500, 60), Line(3000, 60), Line(4500, 60)>>,
       m |-> <<Free(500, 30, 0), Harmonic(1500, 1, 60, 2), Harmonic(1500, 2, 60, 2)>>],
      [truth |-> <<Line(1000, 60), Line(2000, 60), Line(4000, 60), Line(5000, 54)>>,
       m |-> <<Harmonic(1000, 1, 60, 1), Free(7000, 0, 0), Harmonic(2000, 1, 60, 3)>>],
      [truth |-> <<Line(2000, 60), Line(4000, 54), Line(6000, 40)>>,
       m |-> <<Harmonic(2000, 1, 60, 1), Harmonic(2000, 3, 40, 1)>>],
      [truth |-> <<Line(1500, 60), Line(3000, 60)>>,
       m |-> <<Harmonic(1500, 1, 60, 1), Harmonic(1500, 5, 10, 1)>>],
      [truth |-> <<Line(2000, 60), Line(4000, 60)>>,
       m |-> <<Harmonic(2000, 1, 60, 1), Harmonic(2000, 2, 60, 1)>>],
      [truth |-> <<Line(2500, 60), Line(5000, 54)>>,
       m |-> <<Harmonic(2500, 1, 60, 1)>>],
      [truth |-> <<Line(3037, 60)>>, m |-> <<Free(3037, 60, 0)>>] }

\* the thresholds: the default in model units, one between a decrease and its
\* rounded value, and one equal to a decrease
HarmonicThresholds == {2000, 2018, 2700}

InitExtractHarmonics ==
    \E c \in HarmonicModels, o \in {0, 1}, bic_thr \in HarmonicThresholds :
        LET ols == LinearPars(c.truth, c.m)
        IN  /\ data = [truth |-> c.truth, knee |-> 0, fitoff |-> 0]
            /\ sin = c.m
            /\ lin = [ols EXCEPT !.const = @ + o]
            /\ top = "extract_harmonics" /\ pc = "xh_entry"
            /\ par = IdlePar /\ ex = IdleEx /\ rf = IdleRf /\ rp = IdleRp
            /\ hist = IdleHist /\ xin = IdleXin /\ xout = IdleXout
            /\ rs = IdleRs /\ rg = IdleRg /\ fh = IdleFh
            /\ fo = IdleFo /\ store = IdleStore /\ files = IdleFiles /\ gui = IdleGui
            /\ xh = [IdleXh EXCEPT !.bic_thr = bic_thr]
            /\ result = IdleResult /\ nyq = IdleNyq /\ inst = IdleInst

SpecExtractHarmonics == InitExtractHarmonics /\ [][NextExtractHarmonics]_vars

(***************************************************************************)
(* Result.remove_sinusoids (api/result.py lines 339-361).  An array is its *)
(* shape and its elements in row-major order: shape <<n>> for the values,  *)
(* errors and flags per sinusoid, <<n, 2>> for the _hdi intervals.         *)
(***************************************************************************)
MaxSinusoids == 3

\* lines 106-108: sinusoid_property_list x property_type_list, in loop order
PropertyKeys ==
    <<"f_n", "f_n_err", "f_n_hdi", "a_n", "a_n_err", "a_n_hdi", "ph_n", "ph_n_err", "ph_n_hdi">>

\* line 108: sinusoid_passed_list
PassedKeys == <<"passed_sigma", "passed_snr", "passed_both">>

\* every array that holds one entry per sinusoid
SinusoidKeys == PropertyKeys \o PassedKeys \o <<"passed_harmonic">>

Columns(key) == IF key \in {"f_n_hdi", "a_n_hdi", "ph_n_hdi"} THEN 2 ELSE 1

\* lines 111-131: the array of a key for n sinusoids, every element with a
\* value of its own
ArrayOf(key, n) ==
    LET j == CHOOSE k \in 1..Len(SinusoidKeys) : SinusoidKeys[k] = key
    IN  [shape |-> IF Columns(key) = 2 THEN <<n, 2>> ELSE <<n>>,
         flat |-> [p \in 1..(n * Columns(key)) |-> 100 * j + p]]

\* len(property_value)
ArrayLen(arr) == arr.shape[1]

\* the array without the rows at the indices (from 0)
DeleteRows(arr, indices) ==
    LET cols == IF Len(arr.shape) = 2 THEN arr.shape[2] ELSE 1
        at == UNION {{cols * i + c : c \in 0..(cols - 1)} : i \in indices}
    IN  [shape |-> [arr.shape EXCEPT ![1] = @ - Cardinality(indices)],
         flat |-> NpDelete(arr.flat, at)]

\* np.delete(property_value, indices) without axis: the indices are applied
\* to the flattened array and the result has one dimension
DeleteFlat(arr, indices) ==
    [shape |-> <<Len(arr.flat) - Cardinality(indices)>>, flat |-> NpDelete(arr.flat, indices)]

\* np.max(indices); raises ValueError for an empty array
MaxIndex(indices) == CHOOSE i \in indices : \A j \in indices : j <= i

\* lines 348-353: one round of the loops over the properties and their types
RmProperty ==
    /\ pc = "rm_property"
    /\ IF result.indices = {}
       THEN /\ pc' = "rm_raised"
            /\ result' = [result EXCEPT !.error = "ValueError"]
       ELSE LET key == PropertyKeys[result.k]
                property_value == result.arrays[key]
            IN  /\ result' = [result EXCEPT
                                !.arrays = IF MaxIndex(result.indices) < ArrayLen(property_value)
                                           THEN [@ EXCEPT ![key] =
                                                    DeleteFlat(property_value, result.indices)]
                                           ELSE @,
                                !.k = IF result.k < Len(PropertyKeys) THEN @ + 1 ELSE 0]
                /\ pc' = IF result.k < Len(PropertyKeys) THEN "rm_property" ELSE "rm_passed"
    /\ UNCHANGED <<data, sin, lin, top, par, ex, rf, rp, hist, xin, xout, rs, rg, fh,
                   fo, store, files, gui, xh, nyq, inst>>

\* lines 355-359: the passing criteria
RmPassed ==
    /\ pc = "rm_passed"
    /\ result' = [result EXCEPT
                    !.arrays = IF MaxIndex(result.indices) < ArrayLen(result.arrays["passed_both"])
                               THEN [key \in DOMAIN @ |->
                                        IF \E k \in 1..Len(PassedKeys) : PassedKeys[k] = key
                                        THEN DeleteFlat(@[key], result.indices)
                                        ELSE @[key]]
                               ELSE @]
    /\ pc' = "rm_done"
    /\ UNCHANGED <<data, sin, lin, top, par, ex, rf, rp, hist, xin, xout, rs, rg, fh,
                   fo, store, files, gui, xh, nyq, inst>>

NextResult == RmProperty \/ RmPassed

\* a result with the arrays of 0 to MaxSinusoids sinusoids, all of one
\* length, and the indices of some of them
InitResult ==
    \E n \in 0..MaxSinusoids :
        \E indices \in SUBSET (0..(n - 1)) :
            /\ IdleCore([truth |-> <<>>, knee |-> 0, fitoff |-> 0])
            /\ top = "remove_sinusoids" /\ pc = "rm_property"
            /\ fo = IdleFo /\ store = IdleStore /\ files = IdleFiles /\ gui = IdleGui
            /\ xh = IdleXh /\ nyq = IdleNyq /\ inst = IdleInst
            /\ result = [arrays |-> [key \in Range(SinusoidKeys) |-> ArrayOf(key, n)],
                         before |-> [key \in Range(SinusoidKeys) |-> ArrayOf(key, n)],
                         indices |-> indices, k |-> 1, error |-> "none"]

SpecResult == InitResult /\ [][NextResult]_vars

(***************************************************************************)
(* nyquist_frequency (config/dynamic_config.py lines 102-149).  Time       *)
(* stamps are integers and the smallest step is 1 or 2, so that every      *)
(* argument of the sine is a multiple of pi / 2.  Frequencies are in       *)
(* thousandths of 1 / (unit of time).                                      *)
(***************************************************************************)
MaxN == 4
MaxTime == 7

\* np.sin of q quarter turns (q * pi / 2)
SinQuarter(q) == <<0, 1, 0, 0 - 1>>[(q % 4) + 1]

\* the time stamps of a set, in ascending order
Ascending(T) ==
    [k \in 1..Cardinality(T) |-> CHOOSE t \in T : Cardinality({u \in T : u < t}) = k - 1]

\* line 133: np.min(time[1:] - time[:-1])
DeltaTMin(time) ==
    LET steps == {time[k + 1] - time[k] : k \in 1..(Len(time) - 1)}
    IN  CHOOSE d \in steps : \A e \in steps : d <= e

\* lines 102-112: the sum over all pairs of sin(n * pi / delta_t_min * (t_j - t_i))
nyquist_sum_koen_2006(n, time, delta_t_min) ==
    SeqSum([i \in 1..(Len(time) - 1) |->
              SeqSum([k \in 1..(Len(time) - i) |->
                        SinQuarter((2 * n * (time[i + k] - time[i])) \div delta_t_min)])])

\* ss_nu == 0 on floating point numbers: a sum of order 1 is not 0.0, a sum
\* that is 0 in exact arithmetic comes out as 0.0 or as a rounding residue
\* (np.sin(np.pi) is 1.2e-16)
ComparesAsZero(exact) == IF exact = 0 THEN BOOLEAN ELSE {FALSE}

\* line 140: while ss_nu == 0
WhileZero(is_zero) == is_zero

\* lines 133-147: the smallest step, and the start of the loop or the simple
\* value
NqEntry ==
    /\ pc = "nq_entry"
    /\ IF nyq.method = "rigorous"
       THEN /\ nyq' = [nyq EXCEPT !.delta_t_min = DeltaTMin(nyq.time), !.n = 0, !.ss_nu = 0,
                                  !.is_zero = TRUE]
            /\ pc' = "nq_loop"
       ELSE /\ nyq' = [nyq EXCEPT !.delta_t_min = DeltaTMin(nyq.time),
                                  !.f_nyquist = Milli \div (2 * DeltaTMin(nyq.time))]
            /\ pc' = "nq_done"
    /\ UNCHANGED <<data, sin, lin, top, par, ex, rf, rp, hist, xin, xout, rs, rg, fh,
                   fo, store, files, gui, xh, result, inst>>

\* lines 140-142: one round of the loop
NqRound ==
    /\ pc = "nq_loop"
    /\ WhileZero(nyq.is_zero)
    /\ nyq.n < MaxN
    /\ \E is_zero \in ComparesAsZero(nyquist_sum_koen_2006(nyq.n + 1, nyq.time, nyq.delta_t_min)) :
         nyq' = [nyq EXCEPT !.n = @ + 1,
                            !.ss_nu = nyquist_sum_koen_2006(nyq.n + 1, nyq.time, nyq.delta_t_min),
                            !.is_zero = is_zero,
                            !.zeros = IF is_zero THEN @ \cup {nyq.n + 1} ELSE @]
    /\ UNCHANGED <<data, sin, lin, pc, top, par, ex, rf, rp, hist, xin, xout, rs, rg, fh,
                   fo, store, files, gui, xh, result, inst>>

\* lines 144 and 149: f_nyquist = n / (2 * delta_t_min) is returned
NqReturn ==
    /\ pc = "nq_loop"
    /\ ~WhileZero(nyq.is_zero)
    /\ nyq' = [nyq EXCEPT !.f_nyquist = (nyq.n * Milli) \div (2 * nyq.delta_t_min)]
    /\ pc' = "nq_done"
    /\ UNCHANGED <<data, sin, lin, top, par, ex, rf, rp, hist, xin, xout, rs, rg, fh,
                   fo, store, files, gui, xh, result, inst>>

NextNyquist == NqEntry \/ NqRound \/ NqReturn

\* time series of 2 to 4 time stamps from 0 whose smallest step is 1 or 2
TimeSeries ==
    { Ascending(T \cup {0}) :
        T \in {U \in SUBSET (1..MaxTime) :
                 /\ Cardinality(U) \in 1..3
                 /\ DeltaTMin(Ascending(U \cup {0})) \in {1, 2}} }

InitNyquist ==
    \E time \in TimeSeries, method \in {"rigorous", "simple"} :
        /\ IdleCore([truth |-> <<>>, knee |-> 0, fitoff |-> 0])
        /\ top = "nyquist_frequency" /\ pc = "nq_entry"
        /\ fo = IdleFo /\ store = IdleStore /\ files = IdleFiles /\ gui = IdleGui
        /\ xh = IdleXh /\ result = IdleResult /\ inst = IdleInst
        /\ nyq = [IdleNyq EXCEPT !.time = time, !.method = method]

SpecNyquist == InitNyquist /\ [][NextNyquist]_vars

(***************************************************************************)
(* Data.load_data, Data.setter, Data.save and Data.load (api/data.py).     *)
(* Times are whole days, t_mean, t_mean_chunk and t_int are in 0.001 d,    *)
(* frequencies in 0.000001 / d, fluxes in 0.001 of the median.             *)
(***************************************************************************)
Micro == 1000000                  \* the unit 1 of a frequency

\* the light curve that a file holds: its points and its median flux count
LightCurve(file) ==
    CASE file = "a.dat" -> [time |-> <<0, 1, 2>>, flux |-> <<990, 1000, 1010>>,
                            flux_err |-> <<5, 5, 5>>, median |-> 500]
      [] file = "b.dat" -> [time |-> <<10, 12, 13>>, flux |-> <<1000, 980, 1020>>,
                            flux_err |-> <<6, 6, 6>>, median |-> 520]
      [] file = "c.dat" -> [time |-> <<20, 21>>, flux |-> <<1000, 1000>>,
                            flux_err |-> <<4, 4>>, median |-> 480]
      [] OTHER          -> [time |-> <<30, 32, 34>>, flux |-> <<1005, 1000, 995>>,
                            flux_err |-> <<7, 7, 7>>, median |-> 510]

RECURSIVE Flatten(_)
Flatten(parts) == IF parts = <<>> THEN <<>> ELSE Head(parts) \o Flatten(Tail(parts))

\* ut.load_light_curve(file_list): the files in the order of the list, one
\* chunk [start, end) and one median per file
load_light_curve(file_list) ==
    LET n == Len(file_list)
        len(k) == Len(LightCurve(file_list[k]).time)
        start(k) == SeqSum([j \in 1..(k - 1) |-> len(j)])
    IN  [time     |-> Flatten([k \in 1..n |-> LightCurve(file_list[k]).time]),
         flux     |-> Flatten([k \in 1..n |-> LightCurve(file_list[k]).flux]),
         flux_err |-> Flatten([k \in 1..n |-> LightCurve(file_list[k]).flux_err]),
         i_chunks |-> [k \in 1..n |-> <<start(k), start(k) + len(k)>>],
         medians  |-> [k \in 1..n |-> LightCurve(file_list[k]).median]]

\* np.mean of a sequence, in 0.001
MeanMilli(v) == (SeqSum(v) * Milli) \div Len(v)

\* np.median of a sequence, in 0.001
MedianMilli(v) ==
    LET n == Len(v)
        ord == OrderByValue(v, 1..n)
    IN  IF n % 2 = 1 THEN v[ord[(n + 1) \div 2]] * Milli
        ELSE ((v[ord[n \div 2]] + v[ord[n \div 2 + 1]]) * Milli) \div 2

\* np.diff
Diff(v) == [k \in 1..(Len(v) - 1) |-> v[k + 1] - v[k]]

\* np.ptp
Ptp(v) == (CHOOSE a \in Range(v) : \A b \in Range(v) : a >= b)
          - (CHOOSE a \in Range(v) : \A b \in Range(v) : a <= b)

\* ut.frequency_upper_threshold(time, func='min'): the Nyquist frequency of
\* the smallest time step
frequency_upper_threshold(time) == Micro \div (2 * DeltaTMin(time))

\* os.path.splitext(os.path.basename(file))[0]
Stem(file) ==
    CASE file = "a.dat" -> "a" [] file = "b.dat" -> "b" [] file = "c.dat" -> "c" [] OTHER -> "d"

\* the attributes that __init__ creates
InitAttributes == DOMAIN NewData \ {"medians", "description", "date_time", "extra"}

\* setter lines 147-148: setattr for every keyword, whether __init__ made the
\* attribute or not
Setter(self, kwargs) ==
    [a \in DOMAIN self |->
        IF a = "extra" THEN self.extra \cup (DOMAIN kwargs \ InitAttributes)
        ELSE IF a \in DOMAIN kwargs THEN kwargs[a] ELSE self[a]]

\* load_data lines 174-223 on the list that _check_file_existence left
LoadedData(file_list, args) ==
    LET lc_data == load_light_curve(file_list)
        ids == Setter(Setter(NewData,
                   [file_list |-> [container |-> "list", kind |-> "str", items |-> file_list],
                    data_dir |-> "data"]),
                   [target_id |-> IF args.target_id = "" THEN Stem(file_list[1])
                                  ELSE args.target_id,
                    data_id |-> args.data_id])
        read == Setter(ids, [time |-> lc_data.time, flux |-> lc_data.flux,
                             flux_err |-> lc_data.flux_err, i_chunks |-> lc_data.i_chunks,
                             medians |-> lc_data.medians])
    IN  [read EXCEPT
           !.t_tot = Ptp(read.time),
           !.t_mean = MeanMilli(read.time),
           !.t_mean_chunk = [k \in 1..Len(read.i_chunks) |->
                               MeanMilli(SubSeq(read.time, read.i_chunks[k][1] + 1,
                                                read.i_chunks[k][2]))],
           !.t_int = MedianMilli(Diff(read.time)),
           !.f_min = (Micro \div 100) \div Ptp(read.time),
           !.f_max = frequency_upper_threshold(read.time)]

DataFrame ==
    UNCHANGED <<data, sin, lin, top, par, ex, rf, rp, hist, xin, xout, rs, rg, fh,
                fo, store, files, gui, xh, result, nyq>>

\* load_data lines 189-223: no instance for an empty list, the loader raises
\* on a file that does not exist, else the instance is filled and returned
LdRead ==
    /\ pc = "cf_done"
    /\ IF Len(files.file_list) = 0
       THEN pc' = "ld_none" /\ inst' = inst
       ELSE IF \E k \in 1..Len(files.file_list) : files.file_list[k] \notin files.on_disk
       THEN pc' = "ld_raised" /\ inst' = [inst EXCEPT !.error = "FileNotFoundError"]
       ELSE /\ pc' = "ld_loaded"
            /\ \E r \in {LoadedData(files.file_list, inst.args)} :
                   inst' = [inst EXCEPT !.attrs = r]
    /\ DataFrame

OrbitalPeriods == {2500}          \* a period that the user provides, in 0.001 d

\* __init__ lines 78-96 and setter lines 147-148: an instance that is made
\* with Data(target_id, data_id) and filled with the arrays of one light
\* curve and the values derived of them; file_list and data_dir are as
\* __init__ left them
MadeData(file, args) ==
    LET r == LoadedData(<<file>>, args)
    IN  Setter(Setter(NewData, [target_id |-> args.target_id, data_id |-> args.data_id]),
               [time |-> r.time, flux |-> r.flux, flux_err |-> r.flux_err,
                i_chunks |-> r.i_chunks, flux_counts_medians |-> r.medians,
                t_tot |-> r.t_tot, t_mean |-> r.t_mean, t_mean_chunk |-> r.t_mean_chunk,
                t_int |-> r.t_int, f_min |-> r.f_min, f_max |-> r.f_max])

\* Data(target_id, data_id) followed by setter(time=..., flux=..., ...)
DataMake ==
    /\ pc = "ld_entry"
    /\ \E file \in Range(FileNames) :
           \E r \in {MadeData(file, inst.args)} : inst' = [inst EXCEPT !.attrs = r]
    /\ pc' = "dt_made"
    /\ DataFrame

\* setter lines 134-150, called by the user with a known orbital period
DataSetter ==
    /\ pc \in {"ld_loaded", "dt_made"}
    /\ inst.attrs.p_orb = 0
    /\ \E p_orb \in OrbitalPeriods :
           inst' = [inst EXCEPT !.attrs = Setter(inst.attrs, [p_orb |-> p_orb])]
    /\ pc' = pc
    /\ DataFrame

\* the attributes that save writes before the dataset of the file list
\* (lines 307-313) and all that it writes (lines 307-342)
KeysBeforeFileList == {"target_id", "data_id", "description", "date_time", "data_dir"}
KeysOfDataFile ==
    KeysBeforeFileList \cup {"file_list", "t_tot", "t_mean", "t_int", "p_orb", "time", "flux",
                             "flux_err", "i_chunks", "flux_counts_medians", "t_mean_chunk"}

\* line 314, create_dataset('file_list', data=self.file_list): h5py makes a
\* numpy array of the data; an array of str (dtype '<U') has no HDF5 type and
\* the call raises TypeError, an empty list becomes an empty array of float64
NoConversionPath(file_list) == file_list.kind = "str" /\ Len(file_list.items) > 0

\* save lines 306-342: what is in the hdf5 file when save ends; the
\* TypeError of line 314 leaves a file with the attributes of lines 307-313
DataToHdf5(self) ==
    IF NoConversionPath(self.file_list)
    THEN [NoDataFile EXCEPT !.written = TRUE, !.keys = KeysBeforeFileList,
                            !.target_id = self.target_id, !.data_id = self.data_id,
                            !.description = "Star Shine data file", !.date_time = "now",
                            !.data_dir = self.data_dir]
    ELSE [written |-> TRUE, keys |-> KeysOfDataFile,
          target_id |-> self.target_id, data_id |-> self.data_id,
          description |-> "Star Shine data file", date_time |-> "now",
          data_dir |-> self.data_dir,
          file_list |-> [kind |-> IF Len(self.file_list.items) = 0 THEN "float64"
                                  ELSE self.file_list.kind,
                         items |-> self.file_list.items],
          t_tot |-> self.t_tot, t_mean |-> self.t_mean, t_int |-> self.t_int,
          p_orb |-> self.p_orb, time |-> self.time, flux |-> self.flux,
          flux_err |-> self.flux_err, i_chunks |-> self.i_chunks,
          flux_counts_medians |-> self.flux_counts_medians, t_mean_chunk |-> self.t_mean_chunk]

\* load lines 250-275: data_dict; np.copy makes an array of the file list
DataFromHdf5(file) ==
    [target_id |-> file.target_id, data_id |-> file.data_id,
     description |-> file.description, date_time |-> file.date_time,
     data_dir |-> file.data_dir,
     file_list |-> [container |-> "ndarray", kind |-> file.file_list.kind,
                    items |-> file.file_list.items],
     t_tot |-> file.t_tot, t_mean |-> file.t_mean, t_int |-> file.t_int,
     p_orb |-> file.p_orb, time |-> file.time, flux |-> file.flux,
     flux_err |-> file.flux_err, i_chunks |-> file.i_chunks,
     flux_counts_medians |-> file.flux_counts_medians, t_mean_chunk |-> file.t_mean_chunk]

\* save lines 288-344 of an instance: the file is written, down to the end
\* or down to the TypeError of line 314
DataSave ==
    /\ pc \in {"ld_loaded", "dt_made"}
    /\ inst' = [inst EXCEPT !.file = DataToHdf5(inst.attrs), !.saved = inst.attrs,
                            !.error = IF NoConversionPath(inst.attrs.file_list)
                                      THEN "TypeError" ELSE "none"]
    /\ pc' = IF NoConversionPath(inst.attrs.file_list) THEN "dt_save_raised" ELSE "dt_saved"
    /\ DataFrame

\* load lines 243-286 of the file that save left: a new instance, filled by
\* setter from the file; file['file_list'] of a file without that dataset
\* raises KeyError (line 259) and no instance is returned
DataLoad ==
    /\ pc \in {"dt_saved", "dt_save_raised"}
    /\ IF KeysOfDataFile \subseteq inst.file.keys
       THEN /\ inst' = [inst EXCEPT !.attrs = Setter(NewData, DataFromHdf5(inst.file)),
                                    !.error = "none"]
            /\ pc' = "dt_loaded"
       ELSE /\ inst' = [inst EXCEPT !.error = "KeyError"]
            /\ pc' = "dt_load_raised"
    /\ DataFrame

NextData ==
    \/ LoadData \/ CfScan \/ CfDelete \/ LdRead
    \/ DataMake \/ DataSetter \/ DataSave \/ DataLoad

TargetIds == {"", "star"}

\* a file list of up to four files, any of which may be missing, loaded with
\* or without a target id
InitData ==
    \E n \in 0..Len(FileNames), disk \in SUBSET Range(FileNames), target_id \in TargetIds :
        /\ IdleCore([truth |-> <<>>, knee |-> 0, fitoff |-> 0])
        /\ top = "data" /\ pc = "ld_entry"
        /\ files = [IdleFiles EXCEPT !.given = SubSeq(FileNames, 1, n), !.on_disk = disk]
        /\ fo = IdleFo /\ store = IdleStore /\ gui = IdleGui
        /\ xh = IdleXh /\ result = IdleResult /\ nyq = IdleNyq
        /\ inst = [IdleInst EXCEPT !.args = [target_id |-> target_id, data_id |-> "tess"]]

SpecData == InitData /\ [][NextData]_vars

(***************************************************************************)
(* Properties                                                              *)
(***************************************************************************)
\* C6: the frequency returned by extract_single and extract_local lies within
\* the requested bounds [f0, fn]
C6_FrequencyWithinBounds ==
    xout.call # "none" => (xin.f0 <= xout.f /\ xout.f <= xin.fn)

\* the state right after the decision of an iteration
Decided(outcome) == pc = "ex_test" /\ hist.last = outcome /\ hist.iters > 0

\* C1: after a rejected iteration the sinusoids and the linear trend are what
\* they were immediately before that iteration
C1_RejectionRestoresModel ==
    Decided("reject") =>
        /\ GetSinusoidParameters(sin) = hist.pre_sin
        /\ lin = hist.pre_lin

C1_RejectionAfterFit ==
    /\ Decided("reject") /\ par.fit_each_step /\ hist.accepted > 0
    /\ GetSinusoidParameters(sin) = hist.pre_sin

\* C2 as stated: an accepted iteration lowers the BIC of the model by more
\* than bic_thr, on the unrounded values
C2_AcceptedLowersBicByThreshold ==
    (Decided("accept") /\ par.stop_crit = "bic") =>
        Bic(data.truth, sin, lin) < hist.pre_bic - par.bic_thr

\* C2 amended: an accepted iteration lowers the BIC below the baseline bic_prev
\* (the BIC at the last acceptance, or on entry) by more than bic_thr - 0.005,
\* and by at least bic_thr + 0.005 when bic_thr is a multiple of 0.01
C2_AcceptedLowersBaselineRounded ==
    (Decided("accept") /\ par.stop_crit = "bic") =>
        /\ Bic(data.truth, sin, lin) < hist.base - par.bic_thr + 5
        /\ (par.bic_thr % 10 = 0 =>
               Bic(data.truth, sin, lin) <= hist.base - par.bic_thr - 5)
        /\ ex.bic_prev = Bic(data.truth, sin, lin)

C2_AcceptedAtThreshold ==
    /\ Decided("accept") /\ par.stop_crit = "bic"
    /\ hist.base - Bic(data.truth, sin, lin) = par.bic_thr

\* C3 as stated: no more than n_extract iterations are accepted in a call
C3_AcceptedWithinMaxExtract ==
    par.n_extract > 0 => hist.accepted <= par.n_extract

\* the two events that end the loop: a rejection with no switch pending, and
\* the model having grown by n_extract sinusoids since the call
StopEvent ==
    \/ hist.last = "reject" /\ ~ex.switch
    \/ Len(sin) - ex.n_sin_init >= ex.n_extract

\* C3 amended: the loop is left exactly when a candidate was rejected with no
\* switch pending or the model holds n_extract sinusoids more than on entry
C3_LoopLeftExactlyOnStopEvent ==
    /\ pc = "ex_done" => StopEvent
    /\ pc = "ex_iter" => ~StopEvent
    /\ (pc = "ex_test" /\ hist.iters > 0) => (LoopCondition <=> ~StopEvent)

C3_MoreAcceptedThanGrown ==
    /\ pc = "ex_done" /\ par.n_extract > 0
    /\ hist.accepted > par.n_extract
    /\ Len(sin) - ex.n_sin_init < hist.accepted

\* C4: for n_extract > 0 the model never holds more than n_extract sinusoids
\* more than on entry, at the decision of an iteration and on return
C4_GrowthWithinLimit ==
    (par.n_extract > 0 /\ pc \in {"ex_test", "ex_done"} /\ hist.iters > 0) =>
        Len(sin) - ex.n_sin_init <= par.n_extract

C4_LimitReached ==
    /\ pc = "ex_done" /\ par.n_extract = 2 /\ hist.last = "accept"
    /\ Len(sin) - ex.n_sin_init = par.n_extract

\* C5: hybrid selection starts with amplitude, the first rejection switches it
\* to signal to noise, once, and the second rejection stops the loop; with 'a'
\* or 'sn' the first rejection stops the loop
C5_HybridSwitchesOnce ==
    /\ hist.switches <= 1
    /\ (par.select = "hybrid" /\ pc # "ex_entry") =>
          /\ hist.rejected <= 2
          /\ hist.switches = 0 => ex.select = "a"
          /\ hist.switches = 1 => (ex.select = "sn" /\ hist.rejected >= 1)
          /\ (hist.rejected = 0 => hist.switches = 0)
          /\ (hist.rejected = 1 /\ hist.switches = 0) =>
                (pc = "ex_iter" \/ (pc = "ex_test" /\ LoopCondition))
          /\ hist.rejected = 2 => (pc \in {"ex_test", "ex_done"} /\ ~LoopCondition)
    /\ (par.select # "hybrid" /\ pc # "ex_entry") =>
          /\ hist.switches = 0
          /\ ex.select = par.select
          /\ hist.rejected <= 1
          /\ hist.rejected = 1 => (pc \in {"ex_test", "ex_done"} /\ ~LoopCondition)

C5_StoppedAfterSwitch ==
    /\ par.select = "hybrid" /\ pc = "ex_done"
    /\ hist.rejected = 2 /\ hist.switches = 1 /\ ex.select = "sn"

\* the members of the cluster a routine was called with
Members == IF hist.ret = "refine" THEN Range(rf.close_f) ELSE Range(rp.close_f)

\* C7: refine_subset returns the parameters of the last improving pass (those
\* on entry if no pass improved); sinusoids outside close_f are as on entry,
\* the number of sinusoids is unchanged and none is left excluded
C7_RefineReturnsLastImprovingPass ==
    hist.ret = "refine" =>
        /\ GetSinusoidParameters(sin) = hist.good
        /\ Len(sin) = Len(hist.entry)
        /\ \A i \in Indices(sin) : sin[i].incl /\ sin[i].harm = hist.entry[i].harm
        /\ \A i \in Indices(sin) \ Members : sin[i] = hist.entry[i]
        /\ hist.passes >= 1

C7_RefinedThenUndone ==
    /\ hist.ret = "refine" /\ hist.passes >= 2
    /\ GetSinusoidParameters(sin) # GetSinusoidParameters(hist.entry)
    /\ Indices(sin) \ Members # {}

\* C8: every frequency that belongs to a harmonic on entry of refine_subset or
\* replace_subset is the frequency of a sinusoid of the model on return
C8_HarmonicFrequenciesKept ==
    hist.ret \in {"refine", "replace"} =>
        \A i \in Indices(hist.entry) :
            hist.entry[i].harm => \E j \in Indices(sin) : sin[j].f = hist.entry[i].f

C8_HarmonicRefitOffPeak ==
    /\ hist.ret \in {"refine", "replace"}
    /\ \E i \in Members :
          /\ hist.entry[i].harm
          /\ \E l \in 1..Len(data.truth) :
                Abs(data.truth[l].f - hist.entry[i].f) \in 1..Df
          /\ \E j \in Indices(sin) :
                sin[j].f = hist.entry[i].f /\ sin[j].a # hist.entry[i].a

\* C9: in replace_subset a set is tried only if none of its members was
\* replaced before, no member is replaced twice, and on return the model is
\* the one on entry without the replaced members, followed by the accepted
\* replacements, with no sinusoid excluded
C9_ReplacedOnceAndDeleted ==
    /\ pc = "rp_judge" => Range(rp.sets[rp.k]) \cap Range(rp.removed) = {}
    /\ pc \in {"rp_set", "rp_judge"} => Cardinality(Range(rp.removed)) = Len(rp.removed)
    /\ hist.ret = "replace" =>
          /\ sin = RemoveSinusoids(hist.entry, Range(rp.removed)) \o hist.added
          /\ \A i \in Indices(sin) : sin[i].incl
          /\ Range(rp.removed) \subseteq Range(rp.close_f)
          /\ (rp.removed = <<>> <=> hist.added = <<>>)

C9_ReplacedAndSkipped ==
    /\ hist.ret = "replace" /\ rp.removed # <<>> /\ hist.skips > 0
    /\ hist.trials > 1 /\ Len(rp.removed) < Len(rp.close_f)

\* a cluster of two sinusoids closer than half the Rayleigh criterion
PairCluster ==
    /\ Len(rp.close_f) = 2
    /\ Abs(hist.entry[rp.close_f[1]].f - hist.entry[rp.close_f[2]].f) < Rayleigh \div 2

\* C10 as stated: the pair is replaced by one sinusoid whenever the BIC with
\* the replacement is not higher than the BIC with both
C10_CollapsedWhenNotWorse ==
    (hist.ret = "replace" /\ PairCluster /\ hist.trial.bic <= hist.trial.base) =>
        Len(sin) = Len(hist.entry) - 1

\* C10 amended: the pair is replaced by one sinusoid when the replacement
\* lowers the BIC by more than 0.005, and both are kept, unchanged, when it
\* lowers the BIC by less than 0.005, leaves it equal or raises it
C10_CollapsedWhenRoundedBetter ==
    (hist.ret = "replace" /\ PairCluster /\ hist.trials = 1) =>
        /\ hist.trial.base - hist.trial.bic > 5 =>
              (Len(sin) = Len(hist.entry) - 2 + Len(hist.added) /\ hist.added # <<>>)
        /\ hist.trial.base - hist.trial.bic < 5 => sin = hist.entry

C10_KeptAtEqualBic ==
    /\ hist.ret = "replace" /\ PairCluster /\ hist.trials = 1
    /\ hist.trial.bic = hist.trial.base
    /\ sin = hist.entry

\* C11: remove_sinusoids_single returns a fixed point: deleting any one of
\* the sinusoids that remain, with the trend refit, does not lower the BIC of
\* the returned model after rounding, and every deletion it made lowered the
\* BIC of the model it was made on
C11_ReturnsFixedPoint ==
    (pc = "rs_done") =>
        /\ \A i \in Indices(sin) :
              Round2Diff(calc_bic(data.truth, sin, lin, CountOf(sin, data.f_orb)),
                         BicOf(data.truth, ExcludeSinusoids(sin, {i}), data.f_orb)) <= 0
        /\ \A k \in 1..Len(rs.gains) : rs.gains[k] > 0

\* a deletion was made on a model with a harmonic
C11_DeletedBesideHarmonic ==
    pc = "rs_done" /\ rs.n_harm > 0 /\ Len(rs.remove_single) > 0

\* C12: the arguments of n_parameters for a trial are those of the baseline
\* less the sinusoids and the harmonics that the trial leaves out
C12_TrialCountsLikeBaseline ==
    /\ (top = "single" /\ rs.trials > 0) =>
          rs.args_trial = <<rs.args_base[1],
                            rs.args_base[2] - Cardinality(rs.trial_set),
                            rs.args_base[3] - Cardinality(rs.trial_set \cap Range(rs.harmonics))>>
    /\ (top = "groups" /\ rg.trials > 0) =>
          rg.args_trial = <<rg.args_base[1], rg.trial_size, rg.args_base[3]>>

\* a trial was evaluated on a model with a harmonic
C12_TrialBesideHarmonic ==
    \/ top = "single" /\ rs.trials > 0 /\ rs.n_harm > 0
    \/ top = "groups" /\ rg.trials > 0 /\ rg.n_harm > 0

\* C13: in replace_sinusoid_groups every set that shares a sinusoid with an
\* accepted set is excluded from further trials, so the accepted sets are
\* disjoint, no index is deleted twice and the returned set is not larger
\* than the input
C13_AcceptedSetsDisjoint ==
    (top = "groups") =>
        /\ \A j \in Range(rg.remove_sets) : Overlap(rg.f_sets, rg.f_sets[j]) \subseteq rg.used_sets
        /\ \A j, k \in 1..Len(rg.remove_sets) :
              j # k => Range(rg.f_sets[rg.remove_sets[j]])
                         \cap Range(rg.f_sets[rg.remove_sets[k]]) = {}
        /\ LET i_to_remove == IndicesToRemove(rg.f_sets, rg.remove_sets)
           IN  Cardinality(Range(i_to_remove)) = Len(i_to_remove)
        /\ (pc = "rg_done") => Len(sin) <= rg.n_sin

\* a replacement was accepted and a set that overlaps it was passed over
C13_OverlappingSetPassedOver ==
    /\ pc = "rg_done"
    /\ Len(rg.remove_sets) = 1
    /\ rg.used_sets \ Range(rg.remove_sets) # {}
    /\ rg.skips > 1

\* C14: replace_sinusoid_groups keeps every harmonic: each frequency of the
\* input that is a harmonic of the orbit is in the returned set exactly once
C14_HarmonicsKept ==
    (pc = "rg_done") =>
        \A h \in Range(rg.harmonics) :
            Cardinality({k \in Indices(sin) : sin[k].f = hist.entry[h].f}) = 1

\* a set with a harmonic was replaced
C14_HarmonicSetReplaced ==
    /\ pc = "rg_done"
    /\ \E j \in Range(rg.remove_sets) : j \in rg.harm_sets

\* the sets of sinusoids that are not harmonics hold exactly the neighbours
\* in frequency that are closer than the limit
ClosePairsInSets(limit) ==
    LET non_harm == Indices(hist.entry) \ Range(rg.harmonics)
        f(i) == hist.entry[i].f
        neighbours(i, j) == i # j /\ f(i) <= f(j)
                            /\ ~\E k \in non_harm \ {i, j} : f(i) <= f(k) /\ f(k) <= f(j)
        plain == (1..Len(rg.f_sets)) \ rg.harm_sets
    IN  \A i, j \in non_harm :
            neighbours(i, j) =>
                ((f(j) - f(i) < limit) <=> \E s \in plain : {i, j} \subseteq Range(rg.f_sets[s]))

\* C15 as claimed: the chains of replace_sinusoid_groups are built with the
\* Rayleigh criterion 1.5 / t_tot
C15_ChainsWithinRayleigh ==
    (top = "groups" /\ pc # "rg_entry") => ClosePairsInSets(Rayleigh)

\* C15: the chains of replace_sinusoid_groups are built with 1 / t_tot, which
\* is two thirds of the Rayleigh criterion
C15_ChainsWithinInverseTimeBase ==
    (top = "groups" /\ pc # "rg_entry") => ClosePairsInSets(10 * Df)

\* two neighbours closer than the Rayleigh criterion are not a candidate set
C15_CloserThanRayleighNotGrouped ==
    /\ pc = "rg_done"
    /\ rg.f_sets = <<>>
    /\ \E i, j \in Indices(hist.entry) :
          hist.entry[j].f - hist.entry[i].f >= 10 * Df /\ hist.entry[j].f - hist.entry[i].f < Rayleigh

\* the sinusoids of the input within half a resolution unit of a harmonic
CandidatesOfInput ==
    {i \in Indices(hist.entry) :
        \E n \in 1..(PdFn \div data.f_orb + 1) :
            Abs(hist.entry[i].f - n * data.f_orb) < Rayleigh \div 2}

\* C16: fix_harmonic_frequency raises a ValueError exactly when no sinusoid of
\* the input lies within half a resolution unit of a harmonic, and the arrays
\* and the trend of the caller are then as they were
C16_RaisesBeforeAnyChange ==
    (top = "harmonic" /\ pc # "fh_entry") =>
        /\ (CandidatesOfInput = {}) =>
              /\ pc = "fh_raised" /\ fh.error = "ValueError"
              /\ sin = hist.entry /\ lin = hist.pre_lin
        /\ (pc = "fh_raised") => CandidatesOfInput = {}

\* the error was raised for a model that holds sinusoids
C16_RaisedOnSinusoids ==
    pc = "fh_raised" /\ fh.error = "ValueError" /\ Len(sin) > 0

\* C17: the harmonics that fix_harmonic_frequency returns are at exactly
\* n / p_orb: the re-extraction of the other sinusoids and their deletion
\* leave each fixed harmonic as it was
C17_FixedHarmonicsStay ==
    /\ (top = "harmonic" /\ pc \in {"fh_non", "fh_done"}) =>
          \A k \in 1..Len(fh.new) :
              /\ fh.new[k].f = fh.n_list[k] * data.f_orb
              /\ \E j \in Indices(fh.f) : fh.f[j] = fh.new[k]
    /\ (pc = "fh_done") =>
          \A k \in 1..Len(fh.new) : \E j \in Indices(sin) : sin[j] = fh.new[k]

\* harmonics were fixed, another sinusoid moved and one was dropped
C17_HarmonicBesideDropped ==
    /\ pc = "fh_done"
    /\ Len(fh.new) > 0
    /\ fh.deleted # {}
    /\ \E i \in Range(fh.non_harm) \ fh.deleted : fh.f[i] # fh.merged[i]

\* C18: all candidates of one harmonic number are replaced by one sinusoid at
\* n / p_orb: the arrays after this step are the sinusoids that were no
\* candidates, all of them and in their order, and one harmonic for each
\* harmonic number found, and the returned set has one harmonic for each
C18_OneHarmonicPerNumber ==
    (top = "harmonic" /\ pc \in {"fh_non", "fh_done"}) =>
        LET cand == CandidatesOfInput
            numbers == {HarmonicNumber(hist.entry[i].f, data.f_orb) : i \in cand}
            n_rest == Len(hist.entry) - Cardinality(cand)
        IN  /\ Len(fh.merged) = n_rest + Cardinality(numbers)
            /\ SubSeq(fh.merged, 1, n_rest) = SelectIdx(hist.entry, Indices(hist.entry) \ cand, 1)
            /\ \A n \in numbers :
                  Cardinality({j \in Indices(fh.merged) : fh.merged[j].f = n * data.f_orb}) = 1
            /\ (pc = "fh_done") =>
                  \A n \in numbers :
                      Cardinality({j \in Indices(sin) : sin[j].f = n * data.f_orb}) = 1

\* two candidates of the same harmonic number were replaced by one harmonic
C18_TwoCandidatesOneHarmonic ==
    pc = "fh_done" /\ Len(fh.cand) > Len(fh.n_list)

\* C19: the sinusoids that fix_harmonic_frequency deletes after the
\* re-extraction are those that are not harmonics and moved by one resolution
\* unit or more; no harmonic and no sinusoid that moved less is deleted
C19_DeletedAreTheDrifted ==
    (top = "harmonic") =>
        /\ fh.error # "IndexError"
        /\ (pc = "fh_done") =>
              LET drifted == {i \in Indices(fh.f) :
                                 /\ i \notin Range(fh.harmonics)
                                 /\ Abs(fh.f[i].f - fh.merged[i].f) >= Rayleigh}
              IN  /\ fh.deleted = drifted
                  /\ sin = RemoveSinusoids(fh.f, drifted)

\* of two sinusoids that are not harmonics the second was dropped
C19_SecondOfTwoDropped ==
    /\ pc = "fh_done"
    /\ Len(fh.non_harm) = 2
    /\ fh.deleted = {fh.non_harm[2]}

\* remove_sinusoids_single and replace_sinusoid_groups make at most one pass
\* more than they accept removals, accept nothing twice, and replace_subset
\* is at set k after k - 1 trials and skips
PassesBounded ==
    /\ (top = "single") =>
          /\ rs.passes <= Len(rs.remove_single) + 1
          /\ Cardinality(Range(rs.remove_single)) = Len(rs.remove_single)
    /\ (top = "groups") =>
          /\ rg.passes <= Len(rg.remove_sets) + 1
          /\ Cardinality(Range(rg.remove_sets)) = Len(rg.remove_sets)
    /\ (top = "replace" /\ pc \in {"rp_set", "rp_done"}) =>
          /\ hist.trials + hist.skips = rp.k - 1
          /\ rp.k <= Len(rp.sets) + 1

\* refine_subset starts another pass only after a pass that lowered the BIC
\* by half a hundredth or more (a difference of 0.005 in doubles may lie
\* above the tie and round to 0.01)
RefineGoesOnWhenImproved ==
    (pc = "rf_check" /\ pc' = "rf_pass") => rf'.bic_prev <= rf.bic_prev - 5

LoopsDone == pc \in {"rf_done", "rp_done", "rs_done", "rg_done"}

\* passes that can still start, each with room for a position in the pass
PassVariant(n_items, n_accepted, n_prev, position) ==
    (n_items - n_accepted + (IF n_accepted > n_prev THEN 1 ELSE 0)) * (n_items + 3) + position

\* a natural number that is 0 at the return of a routine
Variant ==
    LET n == Len(sin)
        n_close == IF top = "refine" THEN Len(rf.close_f) ELSE 0
    IN  CASE pc = "rs_entry" -> (n + 2) * (n + 3)
          [] pc = "rs_while" -> PassVariant(rs.n_sin, Len(rs.remove_single), rs.n_prev, 1)
          [] pc = "rs_for" -> PassVariant(rs.n_sin, Len(rs.remove_single), rs.n_prev,
                                          rs.n_sin + 3 - rs.i)
          [] pc = "rg_entry" -> (n * n + 2) * (n * n + 3)
          [] pc = "rg_while" -> PassVariant(Len(rg.f_sets), Len(rg.remove_sets), rg.n_prev, 1)
          [] pc = "rg_for" -> PassVariant(Len(rg.f_sets), Len(rg.remove_sets), rg.n_prev,
                                          Len(rg.f_sets) + 3 - rg.i)
          [] pc = "rp_entry" -> 2 * (n * n + 2) + 3
          [] pc = "rp_set" -> 2 * (Len(rp.sets) - rp.k + 1) + 2
          [] pc = "rp_judge" -> 2 * (Len(rp.sets) - rp.k + 1) + 1
          [] pc = "rf_entry" -> Bic(data.truth, sin, lin) * (n_close + 3) + n_close + 3
          [] pc = "rf_pass" -> rf.bic_prev * (n_close + 3) + n_close + 2
          [] pc = "rf_member" -> rf.bic_prev * (n_close + 3) + n_close + 2 - rf.k
          [] pc = "rf_check" -> rf.bic_prev * (n_close + 3) + 1
          [] OTHER -> 0

\* every step of a routine lowers the variant, which stays positive until
\* the routine returns
VariantDecreases == Variant' < Variant /\ (Variant' > 0 \/ LoopsDone')

\* C20: every loop of refine_subset, replace_subset, remove_sinusoids_single
\* and replace_sinusoid_groups ends: the passes are bounded by what was
\* accepted, a refinement is repeated only on a lower BIC, and every step
\* lowers a natural number, so that no run goes on forever or comes back to
\* a state it was in
C20_LoopsTerminate ==
    /\ []PassesBounded
    /\ [][RefineGoesOnWhenImproved]_vars
    /\ [][VariantDecreases]_vars

\* a run that removed sinusoids in two passes and needed a third to stop
C20_StoppedOnePassAfterLastRemoval ==
    /\ pc = "rs_done"
    /\ Len(rs.remove_single) >= 1
    /\ rs.passes = Len(rs.remove_single) + 1

(***************************************************************************)
(* The trend behind the BIC values of extract_sinusoids                    *)
(***************************************************************************)
\* the trend is what update_linear_model makes of the current sinusoids
TrendUpToDate == lin = LinearPars(data.truth, sin)

\* the steps that read ts_model.bic() for a decision: lines 225, 308, 342, 496
ReadsBic == pc \in {"rf_entry", "rp_entry", "rp_judge", "ex_decide"}

\* C21: in extract_sinusoids and the refine_subset and replace_subset it
\* calls, ts_model.bic() is read for a decision only on a model whose trend
\* is the one update_linear_model gives for the current sinusoids
C21_BicOnUpdatedTrend == (top = "extract" /\ ReadsBic) => TrendUpToDate

\* refine_subset is entered from extract_sinusoids with the trend of the
\* model without the new sinusoid, and its baseline BIC is too high for it
C21_RefineBaselineOnOldTrend ==
    /\ top = "extract" /\ pc = "rf_entry"
    /\ ~TrendUpToDate
    /\ lin = hist.pre_lin
    /\ Bic(data.truth, sin, lin) > Bic(data.truth, sin, LinearPars(data.truth, sin))

\* C22: the period that find_orbital_period holds after its first refinement
\* is, bit for bit, the one refine_orbital_period gives for the coarse period
\* and the same frequencies, and the first refinement ends in a ValueError
\* exactly when refine_orbital_period does; a call that has no test period
\* ends before the first refinement and holds no coarse period
C22_FirstRefinementIsRefine ==
    (top = "find_orbital" /\ pc \in {"fo_multiple", "fo_raised"} /\ fo.p_coarse # ValueError) =>
        fo.p_refined = refine_orbital_period(fo.p_coarse, data.f_n)

\* a refinement in which the grid point of least distance lies outside the
\* peak of the harmonic measure
C22_RefinedInsidePeak ==
    /\ top = "find_orbital" /\ pc = "fo_multiple"
    /\ fo.p_refined # fo.p_coarse
    /\ fo.p_refined # RefineByDistance(fo.p_coarse, data.f_n)

\* C23: find_orbital_period returns a tuple of the period and the multiple
\* of the initial period that was chosen, 1 when none is favoured
C23_ReturnsPeriodAndMultiple ==
    (pc = "fo_done" => fo.ret = ReturnTuple(fo.p_orb, fo.multiple))

\* find_orbital_period returned after it chose the double period
C23_ReturnedAfterMultiple ==
    /\ pc = "fo_done"
    /\ fo.multiple = <<2, 1>>
    /\ fo.ret = ReturnFloat(fo.p_orb)

\* C24: with config.overwrite disabled save_conditional writes the file only
\* when there is none and leaves an existing file as it is, and
\* load_conditional returns what the file holds; with config.overwrite
\* enabled save_conditional always writes and load_conditional returns an
\* empty Result; load_conditional of a missing file returns an empty Result
C24_ConditionalSaveAndLoad ==
    /\ (store.last = "save_conditional" /\ ~store.overwrite) =>
           store.file = IF ~store.before.exists THEN SaveHdf5(store.arg) ELSE store.before
    /\ (store.last = "save_conditional" /\ store.overwrite) => store.file = SaveHdf5(store.arg)
    /\ store.last = "load_conditional" =>
           /\ store.file = store.before
           /\ store.loaded = IF ~store.before.exists \/ store.overwrite THEN "empty"
                             ELSE store.before.hdf5

\* a save_conditional that left the file of another result as it was
C24_ExistingFileKept ==
    /\ store.last = "save_conditional" /\ ~store.overwrite
    /\ store.before.exists /\ store.before.hdf5 # store.arg
    /\ store.file = store.before


\* C26: after Data._check_file_existence the file list holds exactly the
\* files of the original list that exist, in their original order, and the
\* call never raises
C26_ExistingFilesKept ==
    /\ pc # "cf_raised"
    /\ pc = "cf_done" => files.file_list = Existing(files.given, files.on_disk)

\* the check ended with a missing file left in the list and an existing one
\* removed from it
C26_WrongFileRemoved ==
    /\ pc = "cf_done" /\ Len(files.missing) >= 2
    /\ \E f \in Range(files.file_list) : f \notin files.on_disk
    /\ \E f \in Range(files.given) : f \in files.on_disk /\ f \notin Range(files.file_list)

\* the parameters of a sinusoid, whether it is excluded or not
Identity(s) == [f |-> s.f, a |-> s.a, ph |-> s.ph, harm |-> s.harm]

\* the sinusoids at the indices 1..n of S are those of T
SamePrefix(S, T, n) ==
    /\ Len(S) >= n /\ Len(T) >= n
    /\ \A i \in 1..n : Identity(S[i]) = Identity(T[i])

\* C28: during replace_subset every index of close_f refers to the same
\* sinusoid as at entry: replacements are appended after all existing
\* sinusoids and the only deletions before the final remove_excluded take
\* away what the rejected trial appended
C28_IndicesStableInPass ==
    (top = "replace" /\ pc \in {"rp_set", "rp_judge"}) =>
        /\ SamePrefix(sin, hist.entry, Len(hist.entry))
        /\ Range(rp.close_f) \subseteq 1..Len(hist.entry)
        /\ \A k \in 1..Len(hist.added) :
              Identity(sin[Len(hist.entry) + k]) = Identity(hist.added[k])
        /\ Len(sin) = Len(hist.entry) + Len(hist.added)
                        + (IF pc = "rp_judge" THEN rp.n_new ELSE 0)

\* a trial was rejected and what it appended deleted, and a later trial of the
\* same pass replaced members of a cluster that does not start at the first
\* sinusoid
C28_KeptAfterDeletion ==
    /\ top = "replace" /\ pc = "rp_set"
    /\ hist.trials >= 2 /\ hist.trial.kept
    /\ Len(hist.added) = rp.n_new
    /\ 1 \notin Range(rp.close_f)
    /\ \A i \in Range(hist.trial.set) : ~sin[i].incl

\* the rejection of a candidate leaves bic_prev as it is
RejectionKeepsBaseline ==
    (pc = "ex_decide" /\ hist'.rejected = hist.rejected + 1) => ex'.bic_prev = ex.bic_prev

\* at the start of an iteration bic_prev is the BIC of the model
BaselineIsCurrentBic == (top = "extract" /\ pc = "ex_iter") => hist.base = hist.pre_bic

\* C29: in extract_sinusoids bic_prev is never reset by a rejection, also not
\* by the one that triggers the hybrid switch, and at the start of every
\* iteration bic_prev equals the BIC of the current model, also with
\* fit_each_step
C29_BaselineOfCurrentModel == [][RejectionKeepsBaseline]_vars /\ []BaselineIsCurrentBic

\* the iteration after the hybrid switch starts, with fit_each_step, from the
\* sinusoids of the last accepted state but with a baseline that is not the
\* BIC of that model
C29_BaselineOffAfterSwitch ==
    /\ top = "extract" /\ pc = "ex_iter"
    /\ par.fit_each_step /\ par.select = "hybrid"
    /\ hist.last = "reject" /\ hist.accepted >= 1 /\ hist.rejected = 1
    /\ hist.pre_sin = ex.copy
    /\ hist.base # hist.pre_bic

\* C30: a rejected trial of replace_subset leaves the model as it was before
\* the trial: what the trial added is removed and nothing else, the members
\* of the set are included again with their parameters, the linear trend is
\* recomputed and bic_prev is unchanged
C30_RejectedTrialUndone ==
    (pc = "rp_set" /\ hist.trials >= 1 /\ ~hist.trial.kept) =>
        /\ sin = hist.before
        /\ \A i \in Range(hist.trial.set) : sin[i].incl
        /\ lin = LinearPars(data.truth, sin)
        /\ rp.bic_prev = hist.trial.base

\* the trial of a set with two harmonics, which added two sinusoids, was
\* rejected
C30_TwoHarmonicsUndone ==
    /\ pc = "rp_set" /\ hist.trials >= 1 /\ ~hist.trial.kept
    /\ rp.n_new = 2
    /\ Len(sin) = rp.n_c

\* the candidates the claim names: per base, the multiples n >= 1 with
\* n * f_base below pd_fn that no sinusoid of that base has
MissingMultiples(S, pd_fn) ==
    UNION { { [n |-> n, f_base |-> S[b].f] :
                n \in {k \in 1..pd_fn :
                         /\ k * S[b].f < pd_fn
                         /\ \A i \in Indices(S) : S[i].h_base = b => S[i].harmonic_n # k} } :
            b \in Range(HarmonicBases(S)) }

\* C31: extract_harmonics tries, for every harmonic base, exactly the
\* multiples n >= 1 with n * f_base < pd_fn that are not yet harmonics of that
\* base, each once and without raising; a candidate is kept only if the BIC
\* drops by more than bic_thr (rounded to 2 decimals), a rejected one is
\* removed so that the sinusoids are those before the trial, and the
\* sinusoids of the entry are never removed
C31_TriesMissingHarmonics ==
    /\ pc # "xh_raised"
    /\ pc \in {"xh_loop", "xh_judge", "xh_done"} =>
         /\ Range(xh.candidates) = MissingMultiples(xh.entry, PdFn)
         /\ Cardinality(Range(xh.candidates)) = Len(xh.candidates)
         /\ SubSeq(sin, 1, Len(xh.entry)) = xh.entry
         /\ xh.last = "accept" => Round2Diff(xh.d_bic[1], xh.d_bic[2]) > xh.bic_thr
         /\ (pc = "xh_loop" /\ xh.last = "reject") =>
              (Round2Diff(xh.d_bic[1], xh.d_bic[2]) <= xh.bic_thr /\ sin = xh.before)
    /\ pc = "xh_done" => xh.i = Len(xh.candidates)

\* the call ended in the IndexError of np.delete: a harmonic of the model
\* lies at or above pd_fn
C31_RaisedOnHighHarmonic ==
    /\ pc = "xh_raised" /\ xh.error = "IndexError"
    /\ \E i \in Indices(sin) : sin[i].harm /\ sin[i].f >= PdFn
    /\ MissingMultiples(sin, PdFn) # {}

\* the thresholds of the claim on what was measured of the multiples
MeetsBoth(ms, k) ==
    FlGt(ms.test_frac[k], FlRatio(11, 10)) /\ FlGt(ms.compl_frac[k], FlRatio(17, 20))
AnyMeetsBoth(ms) == \E k \in 1..Len(ms.n_multiply) : MeetsBoth(ms, k)
LowHarmonicsFull(ms) ==
    FlGt(ms.test_frac[2], FlRatio(19, 20)) /\ FlGt(ms.compl_frac_2, FlRatio(19, 20))

\* C32: when some tested multiple has test_frac > 1.1 and compl_frac > 0.85,
\* find_orbital_period selects a multiple that meets both thresholds itself;
\* when none does, it doubles the period if test_frac of the double > 0.95
\* and compl_frac_2 > 0.95, and else leaves the period to the multiple 1
C32_SelectedMultipleMeetsThresholds ==
    (pc \in {"fo_return", "fo_done", "fo_raised"} /\ fo.measures # NoMeasures) =>
        /\ AnyMeetsBoth(fo.measures) =>
             \E k \in 1..Len(fo.measures.n_multiply) :
                 fo.measures.n_multiply[k] = fo.multiple /\ MeetsBoth(fo.measures, k)
        /\ (~AnyMeetsBoth(fo.measures) /\ LowHarmonicsFull(fo.measures)) => fo.multiple = <<2, 1>>
        /\ (~AnyMeetsBoth(fo.measures) /\ ~LowHarmonicsFull(fo.measures)) =>
             (fo.multiple = <<1, 1>> /\ fo.p_orb = fo.p_refined)

\* a multiple was selected under the primary rule while another multiple
\* passed the completeness threshold without passing the one on test_frac
C32_SelectedAmongComplete ==
    /\ pc = "fo_return" /\ fo.measures # NoMeasures
    /\ AnyMeetsBoth(fo.measures)
    /\ \E k \in 1..Len(fo.measures.n_multiply) :
         /\ FlGt(fo.measures.compl_frac[k], FlRatio(17, 20))
         /\ ~FlGt(fo.measures.test_frac[k], FlRatio(11, 10))
         /\ fo.measures.n_multiply[k] # fo.multiple

\* C33: after Result.remove_sinusoids every array per sinusoid (f_n, a_n,
\* ph_n, their _err and _hdi arrays, passed_sigma, passed_snr, passed_both
\* and passed_harmonic) is the array of before the call without the rows at
\* the given indices, so all have the length n minus the number of indices
C33_ArraysStayAligned ==
    pc = "rm_done" =>
        \A key \in Range(SinusoidKeys) :
            result.arrays[key] = DeleteRows(result.before[key], result.indices)

\* the call left passed_harmonic longer than f_n and made a flat array of an
\* _hdi array
C33_HarmonicFlagsLeft ==
    /\ pc = "rm_done"
    /\ ArrayLen(result.arrays["f_n"]) = ArrayLen(result.before["f_n"]) - Cardinality(result.indices)
    /\ ArrayLen(result.arrays["passed_harmonic"]) > ArrayLen(result.arrays["f_n"])
    /\ Len(result.arrays["f_n_hdi"].shape) = 1

\* C36: with config.nyquist == 'rigorous' nyquist_frequency takes n = 1, 2,
\* ... until the sum of Koen (2006) at n is zero and returns n / (2 *
\* delta_t_min) for that n; with the simple method it returns
\* 1 / (2 * delta_t_min)
C36_ReturnsFirstZeroOfSum ==
    pc = "nq_done" =>
        IF nyq.method = "rigorous"
        THEN /\ nyq.is_zero
             /\ nyq.zeros = {nyq.n}
             /\ nyq.f_nyquist = (nyq.n * Milli) \div (2 * DeltaTMin(nyq.time))
        ELSE nyq.f_nyquist = Milli \div (2 * DeltaTMin(nyq.time))

\* the rigorous method returned for the first n, at which the sum is -1
C36_ReturnedOnNonZeroSum ==
    /\ pc = "nq_done" /\ nyq.method = "rigorous"
    /\ nyq.n = 1 /\ nyq.ss_nu = 0 - 1 /\ ~nyq.is_zero
    /\ nyq.time = <<0, 2, 4, 7>>
    /\ nyq.f_nyquist = Milli \div 4

\* the handler that acted last changed the pipeline of the window or its
\* result: a click that called extract_approx or remove_approx, a result
\* that load_result put in its place, or a pipeline that new_dataset made
ChangedPipeline ==
    \/ gui.last = "click_periodogram" /\ gui.pipeline # NoPipeline
    \/ gui.last \in {"load_result", "new_dataset"} /\ gui.line = 351

C35_AnalyzeNeverRaises == gui.last = "perform_analysis" => gui.error = "none"

\* Analyze was triggered before any data set was loaded and ended in the
\* AttributeError of self.pipeline.data
C35_AnalyzeWithoutPipeline ==
    /\ gui.last = "perform_analysis" /\ gui.error = "AttributeError"
    /\ gui.pipeline = NoPipeline /\ gui.pipeline_thread = NoPipeline


\* the attributes that the class documents
Documented ==
    {"file_list", "data_dir", "target_id", "data_id", "time", "flux", "flux_err", "i_chunks",
     "flux_counts_medians", "t_tot", "t_mean", "t_mean_chunk", "t_int", "p_orb", "f_min", "f_max"}

\* C34: after a successful load_data the attributes are filled from the light
\* curve: the time series and its chunks are those of the files, the derived
\* values are set, and flux_counts_medians holds one median per chunk
C34_LoadedAttributesPopulated ==
    pc = "ld_loaded" =>
        /\ inst.attrs.file_list.items = files.file_list
        /\ Len(inst.attrs.time) > 0
        /\ Len(inst.attrs.flux) = Len(inst.attrs.time)
        /\ Len(inst.attrs.flux_err) = Len(inst.attrs.time)
        /\ Len(inst.attrs.i_chunks) = Len(files.file_list)
        /\ Len(inst.attrs.t_mean_chunk) = Len(inst.attrs.i_chunks)
        /\ inst.attrs.t_tot > 0 /\ inst.attrs.t_int > 0
        /\ inst.attrs.f_min > 0 /\ inst.attrs.f_max > 0
        /\ inst.attrs.target_id # ""
        /\ Len(inst.attrs.flux_counts_medians) = Len(inst.attrs.i_chunks)
        /\ inst.attrs.flux_counts_medians # NewData.flux_counts_medians

\* two files were loaded; their medians are in an attribute named medians and
\* flux_counts_medians is as __init__ left it
C34_MediansInOtherAttribute ==
    /\ pc = "ld_loaded"
    /\ files.file_list = <<"a.dat", "b.dat">>
    /\ inst.attrs.i_chunks = <<<<0, 3>>, <<3, 6>>>>
    /\ inst.attrs.medians = <<500, 520>>
    /\ "medians" \in inst.attrs.extra
    /\ inst.attrs.flux_counts_medians = <<>>

\* C37: save followed by load of the written file gives an instance whose
\* documented attributes equal those of the saved one, f_min and f_max
\* included: neither call raises and every documented attribute is equal
C37_SaveLoadRoundTrip ==
    /\ pc \notin {"dt_save_raised", "dt_load_raised"}
    /\ pc = "dt_loaded" => \A a \in Documented : inst.attrs[a] = inst.saved[a]

\* an instance with bounds f_min and f_max was saved and loaded without an
\* exception; the time series came back and both bounds are 0
C37_BoundsLostOnLoad ==
    /\ pc = "dt_loaded" /\ inst.error = "none"
    /\ inst.file.written /\ inst.file.keys = KeysOfDataFile
    /\ inst.saved.f_min > 0 /\ inst.saved.f_max > 0
    /\ inst.attrs.time = inst.saved.time /\ Len(inst.attrs.time) > 0
    /\ inst.attrs.p_orb = inst.saved.p_orb /\ inst.attrs.p_orb > 0
    /\ inst.attrs.f_min = 0 /\ inst.attrs.f_max = 0

\* save of an instance that load_data returned ended in the TypeError of
\* line 314 and left a file with five attributes and no dataset
C37_SaveRaisedOnFileList ==
    /\ pc = "dt_save_raised" /\ inst.error = "TypeError"
    /\ inst.attrs.file_list.items = files.file_list /\ Len(files.file_list) > 0
    /\ inst.file.written /\ inst.file.keys = KeysBeforeFileList
    /\ inst.saved.f_min > 0

\* load of the file that the failed save left ended in the KeyError of line 259
C37_LoadRaisedOnFileList ==
    /\ pc = "dt_load_raised" /\ inst.error = "KeyError"
    /\ "file_list" \notin inst.file.keys
====
